---- MODULE Spec2Model ----
(***************************************************************************)
(* A model of datashuttle's name formatting (utils/formatting.py), of the  *)
(* duplicate-key check, folder creation, folder and wildcard search and   *)
(* next-number search (utils/folders.py), of the search over SFTP         *)
(* (utils/ssh.py), of the check of a configuration                        *)
(* (configs/canonical_configs.py) and of DataShuttle.make_sub_folders,     *)
(* check_name_formatting, update_config, set_top_level_folder,             *)
(* get_next_sub_number / get_next_ses_number, show_next_sub_number /       *)
(* show_next_ses_number, upload_all and upload_entire_project /            *)
(* download_entire_project (datashuttle.py).                               *)
(*                                                                         *)
(* A Python str is a sequence of one-character strings, so that prefixing, *)
(* splitting, zero-filling and int() / str() are computed, not assumed.    *)
(* A raised exception is a result record whose err field names it.         *)
(***************************************************************************)
EXTENDS Integers, Sequences, FiniteSets, TLC

VARIABLES
    local,             \* directories under cfg["local_path"]: a set of paths
    central,           \* directories under cfg["central_path"]: a set of paths
    top_level_folder,  \* cfg.top_level_folder
    settings,          \* the persistent settings saved with the project
    used,              \* data type key -> cfg.data_type_folders[key].used
    last,              \* the last call: its arguments and how it ended
    nmade              \* number of calls that made folders or changed the configs

vars == <<local, central, top_level_folder, settings, used, last, nmade>>

----------------------------------------------------------------------------
(* Bounds *)

\* make_sub_folders calls that succeed in one behaviour
MaxMakes == 2
\* calls that make folders or change the configs in one behaviour of the
\* folder trees under changing configs
MaxCalls == 3
\* digits of a range endpoint as written (sub-<a>@TO@<b>)
MaxDigits == 2
\* names in one list of plain names
MaxNames == 2
\* numbers one range runs over at most: int(b) - int(a) + 1
MaxSpan == 11

----------------------------------------------------------------------------
(* Python str and list primitives *)

Digits == <<"0", "1", "2", "3", "4", "5", "6", "7", "8", "9">>

IsDigit(c) == \E i \in 1..10 : Digits[i] = c

DigitVal(c) == (CHOOSE i \in 1..10 : Digits[i] = c) - 1

AllDigits(s) == Len(s) > 0 /\ \A i \in 1..Len(s) : IsDigit(s[i])

\* int(s) for a string of decimal digits (leading zeros are dropped)
RECURSIVE int(_)
int(s) ==
    IF Len(s) = 0 THEN 0
    ELSE int(SubSeq(s, 1, Len(s) - 1)) * 10 + DigitVal(s[Len(s)])

\* str(n) for n >= 0
RECURSIVE str(_)
str(n) ==
    IF n < 10 THEN <<Digits[n + 1]>>
    ELSE str(n \div 10) \o <<Digits[(n % 10) + 1]>>

\* s.zfill(width) for an unsigned s
RECURSIVE zfill(_, _)
zfill(s, width) ==
    IF Len(s) >= width THEN s ELSE zfill(<<"0">> \o s, width)

\* s[i:i+len(p)] == p, i counted from 1
MatchesAt(s, p, i) ==
    /\ i >= 1
    /\ i + Len(p) - 1 <= Len(s)
    /\ SubSeq(s, i, i + Len(p) - 1) = p

\* s.find(p) + 1: the first position of p in s, 0 when p is not in s
Find(s, p) ==
    IF \E i \in 1..Len(s) : MatchesAt(s, p, i)
    THEN CHOOSE i \in 1..Len(s) :
            /\ MatchesAt(s, p, i)
            /\ \A j \in 1..(i - 1) : ~MatchesAt(s, p, j)
    ELSE 0

\* p in s
Contains(s, p) == Find(s, p) # 0

\* s.split(sep), sep not empty
RECURSIVE Split(_, _)
Split(s, sep) ==
    LET At(i) ==
            IF i = 0 THEN <<s>>
            ELSE <<SubSeq(s, 1, i - 1)>> \o Split(SubSeq(s, i + Len(sep), Len(s)), sep)
    IN At(Find(s, sep))

\* s.replace(old, new), old not empty
RECURSIVE Replace(_, _, _)
Replace(s, old, new) ==
    LET At(i) ==
            IF i = 0 THEN s
            ELSE SubSeq(s, 1, i - 1) \o new
                    \o Replace(SubSeq(s, i + Len(old), Len(s)), old, new)
    IN At(Find(s, old))

\* set(xs)
Range(xs) == {xs[i] : i \in 1..Len(xs)}

\* len(xs) != len(set(xs))
HasDuplicates(xs) == Len(xs) # Cardinality(Range(xs))

----------------------------------------------------------------------------
(* Results of a call that may raise *)

Ok(names) == [err |-> "none", names |-> names]

Raise(kind) == [err |-> kind, names |-> <<>>]

----------------------------------------------------------------------------
(* utils/formatting.py *)

Space == " "
Underscore == "_"
TagTo == <<"@", "T", "O", "@">>
TagDate == <<"@", "D", "A", "T", "E", "@">>
TagTime == <<"@", "T", "I", "M", "E", "@">>
TagDatetime == <<"@", "D", "A", "T", "E", "T", "I", "M", "E", "@">>

\* puts the prefix before every name, also before one that starts with it
EnsurePrefixAlways(names, prefix) ==
    [i \in 1..Len(names) |-> prefix \o names[i]]

\* prefix + name if name[:n_chars] != prefix else name
ensure_prefixes_on_list_of_names(names, prefix) ==
    LET n_chars == Len(prefix) IN
    [i \in 1..Len(names) |->
        LET name == names[i]
            head == SubSeq(name, 1, IF Len(name) < n_chars THEN Len(name) ELSE n_chars)
        IN IF head # prefix THEN prefix \o name ELSE name]

\* the last position of the longest run of digits of s that starts at j
\* (j - 1 when s[j] is no digit)
RECURSIVE DigitRunEnd(_, _)
DigitRunEnd(s, j) ==
    IF j <= Len(s) /\ IsDigit(s[j]) THEN DigitRunEnd(s, j + 1) ELSE j - 1

\* the regular expression f"{prefix}[0-9]+@TO@[0-9]+" matched at position i
\* of s: the last position of the (greedy) match, 0 when it does not match
ToMatchEnd(s, prefix, i) ==
    LET Right(b, e2) == IF e2 >= b THEN e2 ELSE 0
        Left(a, e1) ==
            IF e1 >= a /\ MatchesAt(s, TagTo, e1 + 1)
            THEN Right(e1 + 1 + Len(TagTo), DigitRunEnd(s, e1 + 1 + Len(TagTo)))
            ELSE 0
    IN IF MatchesAt(s, prefix, i)
       THEN Left(i + Len(prefix), DigitRunEnd(s, i + Len(prefix)))
       ELSE 0

\* re.fullmatch(expected_format, s)
ToFullMatch(s, prefix) == Len(s) > 0 /\ ToMatchEnd(s, prefix, 1) = Len(s)

\* re.search(f"{prefix}[0-9]+@TO@[0-9]+", name)[0]; <<>> stands for None
ToSearch(name, prefix) ==
    LET Found(i) == IF i = 0 THEN <<>> ELSE SubSeq(name, i, ToMatchEnd(name, prefix, i))
    IN Found(IF \E i \in 1..Len(name) : ToMatchEnd(name, prefix, i) # 0
             THEN CHOOSE k \in 1..Len(name) :
                    /\ ToMatchEnd(name, prefix, k) # 0
                    /\ \A j \in 1..(k - 1) : ToMatchEnd(name, prefix, j) = 0
             ELSE 0)

\* looks for the range anywhere in the name
CheckRangeAnywhere(name, prefix) == ToSearch(name, prefix) # <<>>

check_name_is_formatted_correctly(name, prefix) ==
    LET first_key_value_pair == Split(name, <<Underscore>>)[1]
    IN ToFullMatch(first_key_value_pair, prefix)

num_leading_zeros(string) == Len(string) - Len(str(int(string)))

Max(a, b) == IF a >= b THEN a ELSE b

make_list_of_zero_padded_names_across_range(left_number, right_number, name_start_str, name_end_str) ==
    LET max_leading_zeros ==
            Max(num_leading_zeros(left_number), num_leading_zeros(right_number))
        lo == int(left_number)
        hi == int(right_number)
    IN [k \in 1..(hi - lo + 1) |->
            name_start_str \o zfill(str(lo + k - 1), max_leading_zeros + 1)
                \o name_end_str]

\* the body of the loop of update_names_with_range_to_flag for one name that
\* holds @TO@: the names it adds to new_names, or the exception it raises
expand_range_name(name, prefix) ==
    LET Numbers(numbers, name_parts) ==
            \* left_number, right_number = tag_number.split("@TO@")
            IF int(numbers[1]) >= int(numbers[2])
            THEN Raise("range_order")
            ELSE Ok(make_list_of_zero_padded_names_across_range(
                        numbers[1], numbers[2], name_parts[1], name_parts[2]))
        Parts(tag_number, name_parts) ==
            IF Len(name_parts) # 2
            THEN Raise("ValueError")     \* name_start_str, name_end_str = ...
            ELSE IF ~Contains(tag_number, TagTo)
            THEN Raise("range_flag")
            ELSE Numbers(Split(tag_number, TagTo), name_parts)
        TagNumber(tag_number) == Parts(tag_number, Split(name, tag_number))
    IN IF ~check_name_is_formatted_correctly(name, prefix)
       THEN Raise("range_format")
       ELSE TagNumber(Split(ToSearch(name, prefix), prefix)[2])

RECURSIVE range_loop(_, _, _, _)
range_loop(names, prefix, i, new_names) ==
    LET Added(r) ==
            IF r.err # "none" THEN r
            ELSE range_loop(names, prefix, i + 1, new_names \o r.names)
    IN IF i > Len(names) THEN Ok(new_names)
       ELSE IF Contains(names[i], TagTo)
       THEN Added(expand_range_name(names[i], prefix))
       ELSE range_loop(names, prefix, i + 1, Append(new_names, names[i]))

update_names_with_range_to_flag(names, prefix) ==
    range_loop(names, prefix, 1, <<>>)

\* string[i] for a Python index i that may be -1 (the last character)
PyCharAt(string, i) == IF i < 0 THEN string[Len(string) + i + 1] ELSE string[i + 1]

\* leaves the string as it was written
AddNoUnderscore(string, key) == Ok(string)

\* the string with underscores put around key, or AssertionError
add_underscore_before_after_if_not_there(string, key) ==
    LET RightEdge(string1, key_end_idx) ==
            IF key_end_idx # Len(string1) /\ PyCharAt(string1, key_end_idx) # Underscore
            THEN Ok(SubSeq(string1, 1, key_end_idx) \o <<Underscore>>
                        \o SubSeq(string1, key_end_idx + 1, Len(string1)))
            ELSE Ok(string1)
        \* updated_key_start_idx = string.index(key); key_end_idx = ... + key_len
        Updated(string1) == RightEdge(string1, Find(string1, key) - 1 + Len(key))
        LeftEdge(left_missing, string_split) ==
            IF left_missing /\ Len(string_split) # 2
            THEN Raise("AssertionError")
            ELSE Updated(IF left_missing
                         THEN string_split[1] \o <<Underscore>> \o key \o string_split[2]
                         ELSE string)
    \* key_start_idx = string.index(key); string[key_start_idx - 1] != "_"
    IN LeftEdge(PyCharAt(string, Find(string, key) - 2) # Underscore, Split(string, key))

\* the body of the loop of update_names_with_datetime for one name; now is
\* what the two datetime.datetime.now() calls gave, formatted
update_name_with_datetime(name, now) ==
    LET format_date == <<"d", "a", "t", "e", "-">> \o now.date
        format_time == <<"t", "i", "m", "e", "-">> \o now.time
        Replaced(r, key, value) ==
            IF r.err # "none" THEN r ELSE Ok(Replace(r.names, key, value))
        Substitute(key, value) ==
            Replaced(add_underscore_before_after_if_not_there(name, key), key, value)
        Tagged(key, value) == IF key = <<>> THEN Ok(name) ELSE Substitute(key, value)
    IN IF Contains(name, TagDatetime)
       THEN Tagged(TagDatetime, format_date \o <<Underscore>> \o format_time)
       ELSE IF Contains(name, TagDate) THEN Tagged(TagDate, format_date)
       ELSE IF Contains(name, TagTime) THEN Tagged(TagTime, format_time)
       ELSE Tagged(<<>>, <<>>)

RECURSIVE datetime_loop(_, _, _)
datetime_loop(names, now, i) ==
    LET Updated(r) ==
            IF r.err # "none" THEN r
            ELSE datetime_loop([names EXCEPT ![i] = r.names], now, i + 1)
    IN IF i > Len(names) THEN Ok(names)
       ELSE Updated(update_name_with_datetime(names[i], now))

update_names_with_datetime(names, now) == datetime_loop(names, now, 1)

\* checks for duplicates only after the ranges are expanded
FormatNamesLateDuplicateCheck(names, prefix, now) ==
    LET Ranged(ranged) ==
            IF ranged.err # "none" THEN ranged
            ELSE IF HasDuplicates(ranged.names) THEN Raise("duplicate_name")
            ELSE update_names_with_datetime(ranged.names, now)
    IN IF \E i \in 1..Len(names) : Contains(names[i], <<Space>>)
       THEN Raise("spaces")
       ELSE Ranged(update_names_with_range_to_flag(
                        ensure_prefixes_on_list_of_names(names, prefix), prefix))

\* names is the list of str that passed the type check of lines 25-33 (a
\* single str is the list of that one str)
format_names(names, prefix, now) ==
    LET Ranged(ranged) ==
            IF ranged.err # "none" THEN ranged
            ELSE update_names_with_datetime(ranged.names, now)
        WithPrefixes(prefixed_names) ==
            IF HasDuplicates(prefixed_names)
            THEN Raise("duplicate_name")
            ELSE Ranged(update_names_with_range_to_flag(prefixed_names, prefix))
    IN IF \E i \in 1..Len(names) : Contains(names[i], <<Space>>)
       THEN Raise("spaces")
       ELSE WithPrefixes(ensure_prefixes_on_list_of_names(names, prefix))

\* format_names as make_sub_folders reaches it: kind is "sub" or "ses" and
\* the prefix every name gets is kind followed by a dash
check_and_format_names(names, kind, now) ==
    format_names(names, kind \o <<"-">>, now)

----------------------------------------------------------------------------
(* The configuration: top-level folders and data types *)

Sub == <<"s", "u", "b">>
Ses == <<"s", "e", "s">>
Rawdata == <<"r", "a", "w", "d", "a", "t", "a">>
Derivatives == <<"d", "e", "r", "i", "v", "a", "t", "i", "v", "e", "s">>
MetaFolder == <<".", "d", "a", "t", "a", "s", "h", "u", "t", "t", "l", "e", "_", "m", "e", "t", "a">>

DataTypeKeys == {"ephys", "behav", "funcimg", "histology"}

\* cfg.data_type_folders[key].name
DataTypeName(key) ==
    CASE key = "ephys" -> <<"e", "p", "h", "y", "s">>
      [] key = "behav" -> <<"b", "e", "h", "a", "v">>
      [] key = "funcimg" -> <<"f", "u", "n", "c", "i", "m", "g">>
      [] key = "histology" -> <<"h", "i", "s", "t", "o", "l", "o", "g", "y">>

\* cfg.data_type_folders[key].level
DataTypeLevel(key) == IF key = "histology" THEN "sub" ELSE "ses"

\* a data_type argument is a sequence of keys: "all" is <<"all">>, "" is <<"">>
check_data_type_is_valid(data_type) ==
    \A i \in 1..Len(data_type) : data_type[i] \in DataTypeKeys \cup {"all"}

\* the keys of cfg.get_data_type_items(data_type)
get_data_type_items(data_type) ==
    IF \E i \in 1..Len(data_type) : data_type[i] = "all"
    THEN DataTypeKeys
    ELSE Range(data_type)

----------------------------------------------------------------------------
(* The local filesystem: a path is the sequence of folder names below       *)
(* cfg["local_path"]; the set of directories is closed under parents        *)

\* path_.is_dir() / path_.exists(); cfg["local_path"] itself exists
IsDir(fs, path) == path = <<>> \/ path \in fs

\* path_.mkdir(parents=True)
Mkdir(fs, path) == fs \cup {SubSeq(path, 1, k) : k \in 1..Len(path)}

\* make_folders for one path
make_folders(fs, path) == IF ~IsDir(fs, path) THEN Mkdir(fs, path) ELSE fs

\* fnmatch of a name against a pattern in which * is the only wildcard
RECURSIVE FnMatch(_, _)
FnMatch(pat, name) ==
    IF Len(pat) = 0 THEN Len(name) = 0
    ELSE IF Head(pat) = "*"
    THEN \/ FnMatch(Tail(pat), name)
         \/ Len(name) > 0 /\ FnMatch(pat, Tail(name))
    ELSE Len(name) > 0 /\ Head(name) = Head(pat) /\ FnMatch(Tail(pat), Tail(name))

\* glob.glob: as fnmatch, but a name that starts with a dot is matched only
\* by a pattern that starts with a dot
GlobMatch(pat, name) ==
    /\ FnMatch(pat, name)
    /\ (Len(name) > 0 /\ Head(name) = ".") => (Len(pat) > 0 /\ Head(pat) = ".")

\* the folder names search_filesystem_path_for_folders returns
search_filesystem_path_for_folders(fs, search_path, search_prefix) ==
    {p[Len(p)] : p \in {q \in fs :
        /\ Len(q) = Len(search_path) + 1
        /\ SubSeq(q, 1, Len(search_path)) = search_path
        /\ GlobMatch(search_prefix, q[Len(q)])}}

\* search_for_folders(cfg, search_path, "local", search_prefix)[0]
search_for_folders_local(fs, search_path, search_prefix) ==
    IF ~IsDir(fs, search_path) THEN {}
    ELSE search_filesystem_path_for_folders(fs, search_path, search_prefix)

\* search_sub_or_ses_level(cfg, base_folder, "local", sub, search_str=...)[0];
\* sub is <<>> for None (an empty str is falsy too)
search_sub_or_ses_level_local(fs, base_folder, sub, search_str) ==
    search_for_folders_local(
        fs, IF sub # <<>> THEN Append(base_folder, sub) ELSE base_folder, search_str)

----------------------------------------------------------------------------
(* utils.get_values_from_bids_formatted_name(names, key, return_as_int=True) *)

\* the integer value of the first key-value pair of name, which must be
\* <key>-<digits>
bids_value(name, key) ==
    LET Value(first, prefix) ==
            IF MatchesAt(first, prefix, 1)
                /\ AllDigits(SubSeq(first, Len(prefix) + 1, Len(first)))
            THEN Ok(<<int(SubSeq(first, Len(prefix) + 1, Len(first)))>>)
            ELSE Raise("invalid_value")
    IN IF ~Contains(name, key) THEN Raise("key_not_found")
       ELSE Value(Split(name, <<Underscore>>)[1], key \o <<"-">>)

RECURSIVE values_loop(_, _, _, _)
values_loop(all_names, key, i, all_values) ==
    LET Added(r) ==
            IF r.err # "none" THEN r
            ELSE values_loop(all_names, key, i + 1, all_values \o r.names)
    IN IF i > Len(all_names) THEN Ok(all_values)
       ELSE Added(bids_value(all_names[i], key))

get_values_from_bids_formatted_name(all_names, key) ==
    values_loop(all_names, key, 1, <<>>)

\* a search result as the list the search returned it in
RECURSIVE ListOf(_)
ListOf(set) ==
    IF set = {} THEN <<>>
    ELSE LET x == CHOOSE y \in set : TRUE IN <<x>> \o ListOf(set \ {x})

----------------------------------------------------------------------------
(* utils/folders.py *)

None == <<>>
Some(x) == <<x>>

StarSubStar == <<"*", "s", "u", "b", "-", "*">>
StarSesStar == <<"*", "s", "e", "s", "-", "*">>

\* the check of the new names of one level against the folders found there:
\* "none", or the error raised
check_against_existing(existing_names, new_names, key) ==
    LET Compare(existing_values, new_values) ==
            IF existing_values.err # "none" THEN existing_values.err
            ELSE IF new_values.err # "none" THEN new_values.err
            ELSE IF \E i \in 1..Len(new_values.names) :
                        new_values.names[i] \in Range(existing_values.names)
            THEN "duplicate_key"
            ELSE "none"
    IN Compare(get_values_from_bids_formatted_name(ListOf(existing_names), key),
               get_values_from_bids_formatted_name(new_names, key))

RECURSIVE check_ses_loop(_, _, _, _, _)
check_ses_loop(fs, base_folder, new_sub_names, new_ses_names, i) ==
    LET Checked(e) ==
            IF e # "none" THEN e
            ELSE check_ses_loop(fs, base_folder, new_sub_names, new_ses_names, i + 1)
    IN IF i > Len(new_sub_names) THEN "none"
       ELSE Checked(check_against_existing(
                search_sub_or_ses_level_local(fs, base_folder, new_sub_names[i], StarSesStar),
                new_ses_names, Ses))

\* compares the key values as written, leading zeros included
CheckKeysAsWritten(fs, base_folder, new_sub_names, new_ses_names) ==
    LET Written(names, key) ==
            {SubSeq(Split(n, <<Underscore>>)[1], Len(key) + 2,
                    Len(Split(n, <<Underscore>>)[1])) : n \in names}
    IN IF new_ses_names = None
       THEN IF Written(Range(new_sub_names), Sub)
                  \cap Written(search_sub_or_ses_level_local(
                                  fs, base_folder, None, StarSubStar), Sub) # {}
            THEN "duplicate_key" ELSE "none"
       ELSE IF \E i \in 1..Len(new_sub_names) :
                  Written(Range(new_ses_names[1]), Ses)
                      \cap Written(search_sub_or_ses_level_local(
                                  fs, base_folder, new_sub_names[i], StarSesStar), Ses) # {}
            THEN "duplicate_key" ELSE "none"

\* checks the new sessions against the sessions of every subject
CheckSesAcrossSubjects(fs, base_folder, new_sub_names, new_ses_names) ==
    IF new_ses_names = None
    THEN check_against_existing(
            search_sub_or_ses_level_local(fs, base_folder, None, StarSubStar),
            new_sub_names, Sub)
    ELSE check_against_existing(
            UNION {search_sub_or_ses_level_local(fs, base_folder, s, StarSesStar) :
                     s \in search_sub_or_ses_level_local(fs, base_folder, None, StarSubStar)},
            new_ses_names[1], Ses)

\* "none", or the error check_no_duplicate_sub_ses_key_values raises;
\* new_ses_names is None or Some(list)
check_no_duplicate_sub_ses_key_values(fs, base_folder, new_sub_names, new_ses_names) ==
    IF new_ses_names = None
    THEN check_against_existing(
            search_sub_or_ses_level_local(fs, base_folder, None, StarSubStar),
            new_sub_names, Sub)
    ELSE check_ses_loop(fs, base_folder, new_sub_names, new_ses_names[1], 1)

\* makes the folder of every selected data type, used or not
MakeDataTypeFoldersUnfiltered(fs, usedflags, data_type, sub_or_ses_level_path, level) ==
    LET made == {key \in get_data_type_items(data_type) : DataTypeLevel(key) = level}
    IN fs \cup UNION {
            make_folders(
                make_folders(fs, Append(sub_or_ses_level_path, DataTypeName(key))),
                sub_or_ses_level_path \o <<DataTypeName(key), MetaFolder>>)
            : key \in made}

\* makes the folder of every selected and used data type at every level
MakeDataTypeFoldersAnyLevel(fs, usedflags, data_type, sub_or_ses_level_path, level) ==
    LET made == {key \in get_data_type_items(data_type) : usedflags[key]}
    IN fs \cup UNION {
            make_folders(
                make_folders(fs, Append(sub_or_ses_level_path, DataTypeName(key))),
                sub_or_ses_level_path \o <<DataTypeName(key), MetaFolder>>)
            : key \in made}

\* makes the metadata folder only with a data-type folder that is new
MakeDataTypeFoldersMetaIfNew(fs, usedflags, data_type, sub_or_ses_level_path, level) ==
    LET made == {key \in get_data_type_items(data_type) :
                    usedflags[key] /\ DataTypeLevel(key) = level}
    IN fs \cup UNION {
            IF IsDir(fs, Append(sub_or_ses_level_path, DataTypeName(key)))
            THEN fs
            ELSE Mkdir(fs, sub_or_ses_level_path \o <<DataTypeName(key), MetaFolder>>)
            : key \in made}

\* make_data_type_folders(cfg, data_type, sub_or_ses_level_path, level)
make_data_type_folders(fs, usedflags, data_type, sub_or_ses_level_path, level) ==
    LET made == {key \in get_data_type_items(data_type) :
                    usedflags[key] /\ DataTypeLevel(key) = level}
    IN fs \cup UNION {
            make_folders(
                make_folders(fs, Append(sub_or_ses_level_path, DataTypeName(key))),
                sub_or_ses_level_path \o <<DataTypeName(key), MetaFolder>>)
            : key \in made}

\* makes the folders of the first session only
MakeFirstSesOnly(fs, usedflags, sub_path, ses_names, data_type, data_type_passed, j) ==
    LET DataTypes(fs1, ses_path) ==
            IF data_type_passed
            THEN make_data_type_folders(fs1, usedflags, data_type, ses_path, "ses")
            ELSE fs1
        Session(ses_path) == DataTypes(make_folders(fs, ses_path), ses_path)
    IN IF Len(ses_names) = 0 THEN fs ELSE Session(Append(sub_path, ses_names[1]))

RECURSIVE make_ses_loop(_, _, _, _, _, _, _)
make_ses_loop(fs, usedflags, sub_path, ses_names, data_type, data_type_passed, j) ==
    LET DataTypes(fs1, ses_path) ==
            IF data_type_passed
            THEN make_data_type_folders(fs1, usedflags, data_type, ses_path, "ses")
            ELSE fs1
        Session(ses_path) == DataTypes(make_folders(fs, ses_path), ses_path)
    IN IF j > Len(ses_names) THEN fs
       ELSE make_ses_loop(Session(Append(sub_path, ses_names[j])), usedflags, sub_path,
                          ses_names, data_type, data_type_passed, j + 1)

RECURSIVE make_sub_loop(_, _, _, _, _, _, _, _)
make_sub_loop(fs, base_folder, usedflags, sub_names, ses_names, data_type, data_type_passed, i) ==
    LET DataTypes(fs1, sub_path) ==
            IF data_type_passed
            THEN make_data_type_folders(fs1, usedflags, data_type, sub_path, "sub")
            ELSE fs1
        Sessions(fs2, sub_path) ==
            make_ses_loop(fs2, usedflags, sub_path, ses_names, data_type,
                          data_type_passed, 1)
        Subject(sub_path) ==
            Sessions(DataTypes(make_folders(fs, sub_path), sub_path), sub_path)
    IN IF i > Len(sub_names) THEN fs
       ELSE make_sub_loop(Subject(Append(base_folder, sub_names[i])), base_folder,
                          usedflags, sub_names, ses_names, data_type,
                          data_type_passed, i + 1)

\* makes the first subject's folder before the data type is checked
MakeTreesCheckLate(fs, base_folder, usedflags, sub_names, ses_names, data_type) ==
    LET data_type_passed == data_type # <<"">>
    IN IF data_type_passed /\ ~check_data_type_is_valid(data_type)
       THEN [err |-> "invalid_data_type",
             fs  |-> IF Len(sub_names) > 0
                     THEN make_folders(fs, Append(base_folder, sub_names[1]))
                     ELSE fs]
       ELSE [err |-> "none",
             fs  |-> make_sub_loop(fs, base_folder, usedflags, sub_names, ses_names,
                                   data_type, data_type_passed, 1)]

\* makes the folders of the data types it knows and reports the others after
MakeTreesOfKnownTypes(fs, base_folder, usedflags, sub_names, ses_names, data_type) ==
    LET data_type_passed == data_type # <<"">>
    IN IF data_type_passed /\ ~check_data_type_is_valid(data_type)
       THEN [err |-> "invalid_data_type",
             fs  |-> make_sub_loop(fs, base_folder, usedflags, sub_names, ses_names,
                                   SelectSeq(data_type, LAMBDA k : k \in DataTypeKeys),
                                   data_type_passed, 1)]
       ELSE [err |-> "none",
             fs  |-> make_sub_loop(fs, base_folder, usedflags, sub_names, ses_names,
                                   data_type, data_type_passed, 1)]

\* the filesystem after make_folder_trees, and the error it raised if any
make_folder_trees(fs, base_folder, usedflags, sub_names, ses_names, data_type) ==
    LET data_type_passed == data_type # <<"">>
    IN IF data_type_passed /\ ~check_data_type_is_valid(data_type)
       THEN [err |-> "invalid_data_type", fs |-> fs]
       ELSE [err |-> "none",
             fs  |-> make_sub_loop(fs, base_folder, usedflags, sub_names, ses_names,
                                   data_type, data_type_passed, 1)]

----------------------------------------------------------------------------
(* datashuttle.py *)

\* the folder the project starts with, whatever the working one is
RawdataBaseFolder(top) == <<Rawdata>>

\* cfg.get_base_folder("local") below cfg["local_path"]
get_base_folder(top) == <<top>>

\* DataShuttle.make_sub_folders: the local filesystem after the call, how the
\* call ended, and the formatted names it logged. ses_names is None or
\* Some(list); now_sub and now_ses are the clock readings of the two
\* formatting calls
make_sub_folders(fs, top, usedflags, sub_names, ses_names, data_type, now_sub, now_ses) ==
    LET End(err, fs1, f_sub, f_ses) ==
            [err |-> err, fs |-> fs1,
             sub_names |-> f_sub.names,
             ses_names |-> IF ses_names = None \/ f_sub.err # "none"
                           THEN None ELSE Some(f_ses.names)]
        Made(made, f_sub, f_ses) == End(made.err, made.fs, f_sub, f_ses)
        Checked(dup, f_sub, f_ses) ==
            IF dup # "none" THEN End(dup, fs, f_sub, f_ses)
            ELSE Made(make_folder_trees(fs, get_base_folder(top), usedflags,
                                        f_sub.names, f_ses.names, data_type),
                      f_sub, f_ses)
        WithNames(f_sub, f_ses) ==
            IF f_sub.err # "none" THEN End(f_sub.err, fs, f_sub, f_ses)
            ELSE IF f_ses.err # "none" THEN End(f_ses.err, fs, f_sub, f_ses)
            ELSE Checked(check_no_duplicate_sub_ses_key_values(
                            fs, get_base_folder(top), f_sub.names,
                            IF ses_names = None THEN None ELSE Some(f_ses.names)),
                         f_sub, f_ses)
    IN WithNames(check_and_format_names(sub_names, Sub, now_sub),
                 IF ses_names = None THEN Ok(<<>>)
                 ELSE check_and_format_names(ses_names[1], Ses, now_ses))

\* the largest of a set of integers
MaxOf(values) == CHOOSE m \in values : \A v \in values : v <= m

\* suggests the largest number that exists
SuggestLatest(fs_local, fs_central, base_folder, sub, search_str) ==
    LET bids_key == IF sub # <<>> THEN Ses ELSE Sub
        Numbers(all_value_nums) ==
            IF all_value_nums.err # "none"
            THEN [err |-> all_value_nums.err, nums |-> <<>>]
            ELSE [err |-> "none",
                  nums |-> <<MaxOf(Range(all_value_nums.names)),
                             MaxOf(Range(all_value_nums.names))>>]
        Found(all_folders) ==
            IF all_folders = {}
            THEN [err |-> "no_folders", nums |-> <<>>]
            ELSE Numbers(get_values_from_bids_formatted_name(ListOf(all_folders), bids_key))
    IN Found(search_sub_or_ses_level_local(fs_local, base_folder, sub, search_str)
             \cup search_sub_or_ses_level_local(fs_central, base_folder, sub, search_str))

\* folders.get_next_sub_or_ses_number(cfg, sub, search_str): the error raised,
\* or <<suggested_new_num, latest_existing_num>>; sub is <<>> for None and
\* base_folder is the same below local_path and below central_path
get_next_sub_or_ses_number(fs_local, fs_central, base_folder, sub, search_str) ==
    LET bids_key == IF sub # <<>> THEN Ses ELSE Sub
        Numbers(all_value_nums) ==
            IF all_value_nums.err # "none"
            THEN [err |-> all_value_nums.err, nums |-> <<>>]
            ELSE [err |-> "none",
                  nums |-> <<MaxOf(Range(all_value_nums.names)) + 1,
                             MaxOf(Range(all_value_nums.names))>>]
        Found(all_folders) ==
            IF all_folders = {}
            THEN [err |-> "no_folders", nums |-> <<>>]
            ELSE Numbers(get_values_from_bids_formatted_name(ListOf(all_folders), bids_key))
    IN Found(search_sub_or_ses_level_local(fs_local, base_folder, sub, search_str)
             \cup search_sub_or_ses_level_local(fs_central, base_folder, sub, search_str))

SubStar == <<"s", "u", "b", "-", "*">>
SesStar == <<"s", "e", "s", "-", "*">>

\* suggests the number after the largest local one
NextOfLocalOnly(fs_local, fs_central, top) ==
    get_next_sub_or_ses_number(fs_local, {}, get_base_folder(top), None, SubStar)

\* DataShuttle.get_next_sub_number()
get_next_sub_number(fs_local, fs_central, top) ==
    get_next_sub_or_ses_number(fs_local, fs_central, get_base_folder(top), None, SubStar)

\* DataShuttle.get_next_ses_number(sub)
get_next_ses_number(fs_local, fs_central, top, sub) ==
    get_next_sub_or_ses_number(fs_local, fs_central, get_base_folder(top), sub, SesStar)

\* DataShuttle.show_next_sub_number(): the error raised, or the two numbers of
\* the message printed to the user
show_next_sub_number(fs_local, fs_central, top) ==
    LET Message(suggested_new_num, latest_existing_num) ==
            [err |-> "none", most_recent |-> latest_existing_num,
             suggested |-> suggested_new_num]
        Shown(r) ==
            IF r.err # "none"
            THEN [err |-> r.err, most_recent |-> 0, suggested |-> 0]
            ELSE Message(r.nums[1], r.nums[2])
    IN Shown(get_next_sub_number(fs_local, fs_central, top))

\* DataShuttle.show_next_ses_number(sub)
show_next_ses_number(fs_local, fs_central, top, sub) ==
    LET Message(latest_existing_num, suggested_new_num) ==
            [err |-> "none", most_recent |-> latest_existing_num,
             suggested |-> suggested_new_num]
        Shown(r) ==
            IF r.err # "none"
            THEN [err |-> r.err, most_recent |-> 0, suggested |-> 0]
            ELSE Message(r.nums[1], r.nums[2])
    IN Shown(get_next_ses_number(fs_local, fs_central, top, sub))

\* DataShuttle.upload_all(dry_run): the central folders after every folder of
\* the working top-level folder is copied; what is on central stays
upload_all(fs_local, fs_central, top, dry_run) ==
    IF dry_run THEN fs_central
    ELSE fs_central \cup {p \in fs_local : p[1] = top}

\* canonical_folders.get_top_level_folders()
TopLevelFolders == {Rawdata, Derivatives}

\* the same as the list the transfer of the entire project goes through
get_top_level_folders == <<Rawdata, Derivatives>>

\* DataShuttle.download_all(dry_run): the local folders after every folder of
\* the working top-level folder is copied from central; what is local stays
download_all(fs_local, fs_central, top, dry_run) ==
    IF dry_run THEN fs_local
    ELSE fs_local \cup {p \in fs_central : p[1] = top}

\* the loop of _transfer_entire_project from the i-th top-level folder on.
\* st holds the working top-level folder, the two filesystems and the calls
\* of transfer_all_func made so far, each with the top-level folder it was
\* for and the working one it ran under; a transfer of a folder in fails raises
RECURSIVE transfer_loop(_, _, _, _)
transfer_loop(st, direction, fails, i) ==
    LET Called(folder_name) ==
            Append(st.invoked, [folder |-> folder_name, top_level_folder |-> folder_name])
        Transfer(folder_name) ==
            IF folder_name \in fails
            THEN [st EXCEPT !.err = "transfer_failed", !.top = folder_name,
                            !.invoked = Called(folder_name)]
            ELSE transfer_loop(
                    [st EXCEPT !.top = folder_name,
                               !.invoked = Called(folder_name),
                               !.local = IF direction = "download"
                                         THEN download_all(st.local, st.central, folder_name, FALSE)
                                         ELSE @,
                               !.central = IF direction = "upload"
                                           THEN upload_all(st.local, st.central, folder_name, FALSE)
                                           ELSE @],
                    direction, fails, i + 1)
    IN IF i > Len(get_top_level_folders) THEN st
       ELSE Transfer(get_top_level_folders[i])

\* DataShuttle._transfer_entire_project(direction): how the call ended, the
\* working top-level folder and the filesystems after it, and the calls of
\* transfer_all_func it made
transfer_entire_project(top, fs_local, fs_central, direction, fails) ==
    LET Restored(st) ==
            IF st.err # "none" THEN st ELSE [st EXCEPT !.top = top]
    IN Restored(transfer_loop([err |-> "none", top |-> top, local |-> fs_local,
                               central |-> fs_central, invoked |-> <<>>],
                              direction, fails, 1))

\* takes any name as the working top-level folder
SetAnyTopLevelFolder(top, saved, folder_name) ==
    [err |-> "none", top |-> folder_name,
     settings |-> [saved EXCEPT !.top_level_folder = folder_name]]

\* DataShuttle.set_top_level_folder: the working top-level folder and the
\* persistent settings after the call, and the error raised if any
set_top_level_folder(top, saved, folder_name) ==
    IF folder_name \notin TopLevelFolders
    THEN [err |-> "top_level_folder", top |-> top, settings |-> saved]
    ELSE [err |-> "none", top |-> folder_name,
          settings |-> [saved EXCEPT !.top_level_folder = folder_name]]

\* DataShuttle.update_config("use_" + data_type_key, new_info): the used flags
\* of cfg.data_type_folders after the entry is updated and the folders are
\* initialised again from the configs; the working top-level folder is loaded
\* again from the persistent settings
update_config(usedflags, data_type_key, new_info) ==
    [usedflags EXCEPT ![data_type_key] = new_info]

----------------------------------------------------------------------------
(* The calls the model makes *)

\* datetime.datetime.now(), formatted %Y%m%d and %H%M%S
Nows == {[date |-> <<"2", "0", "2", "3", "0", "1", "0", "1">>, time |-> <<"2", "3", "5", "9", "5", "9">>],
         [date |-> <<"2", "0", "2", "3", "0", "1", "0", "2">>, time |-> <<"0", "0", "0", "0", "0", "0">>]}

\* the clock readings that can tell: format_names reads the clock for every
\* list, but only a name with a date or time tag shows what it read
ClockReadings(names) ==
    IF \E i \in 1..Len(names) :
            \/ Contains(names[i], TagDatetime)
            \/ Contains(names[i], TagDate)
            \/ Contains(names[i], TagTime)
    THEN Nows
    ELSE {CHOOSE now \in Nows : TRUE}

SubOnlyInputs == {
    <<<<"s", "u", "b", "-", "0", "0", "1", "_", "i", "d", "-", "1", "2", "3">>>>,
    <<<<"s", "u", "b", "-", "0", "0", "1", "_", "i", "d", "-", "1", "2", "5">>>>,
    <<<<"s", "u", "b", "-", "1">>>>,
    <<<<"0", "0", "3">>>>,
    <<<<"s", "u", "b", "-", "0", "0", "2">>, <<"s", "u", "b", "-", "0", "2">>>>,
    <<<<"s", "u", "b", "_", "1", "0", "0">>>>,
    <<<<"s", "u", "b", "-", "2", "@", "T", "O", "@", "3">>>>,
    <<<<"0", " ", "1">>>>,
    <<<<"4">>, <<"s", "u", "b", "-", "4">>>>,
    <<<<"s", "u", "b", "-", "5", "@", "T", "O", "@", "5">>>>,
    <<<<"6", "@", "D", "A", "T", "E", "@", "@", "D", "A", "T", "E", "@">>>>}

SubWithSesInputs == {
    <<<<"s", "u", "b", "-", "0", "0", "1", "_", "i", "d", "-", "1", "2", "3">>>>,
    <<<<"s", "u", "b", "-", "1">>>>,
    <<<<"s", "u", "b", "_", "1", "0", "0">>>>,
    <<<<"0", "0", "3">>, <<"s", "u", "b", "-", "1">>>>}

SesNameInputs == {
    <<<<"s", "e", "s", "-", "0", "0", "1">>>>,
    <<<<"1", "_", "@", "D", "A", "T", "E", "@">>>>,
    <<<<"s", "e", "s", "-", "0", "0", "2">>, <<"s", "e", "s", "-", "0", "1", "_", "x", "-", "1">>>>,
    <<<<"s", "e", "s", "_", "1", "0", "0">>>>}

DataTypeInputs == {<<"">>, <<"behav", "histology">>, <<"ephys", "ephy">>}

\* the arguments of the make_sub_folders calls: <<sub_names, ses_names, data_type>>
MakeInputs ==
    (SubOnlyInputs \X {None} \X {<<"all">>})
    \cup (SubWithSesInputs \X {Some(x) : x \in SesNameInputs} \X {<<"all">>})
    \cup ({<<<<"0", "0", "3">>>>} \X {None, Some(<<<<"s", "e", "s", "-", "0", "0", "1">>>>)} \X DataTypeInputs)

NoCall == [op |-> "init", args |-> <<>>, err |-> "none",
           sub_names |-> <<>>, ses_names |-> None]

Init ==
    /\ local = {}
    /\ central = {}
    /\ settings = [top_level_folder |-> Rawdata]
    /\ top_level_folder = Rawdata
    /\ used = [k \in DataTypeKeys |-> TRUE]
    /\ last = NoCall
    /\ nmade = 0

\* project.make_sub_folders(sub_names, ses_names, data_type); a call that
\* makes folders is taken only while fewer than max_calls calls did
MakeWithin(max_calls, sub_names, ses_names, data_type, now_sub, now_ses) ==
    LET Ends(r) ==
            /\ r.err = "none" => nmade < max_calls
            /\ local' = r.fs
            /\ nmade' = IF r.err = "none" THEN nmade + 1 ELSE nmade
            /\ last' = [op |-> "make_sub_folders",
                        args |-> <<sub_names, ses_names, data_type>>,
                        err |-> r.err,
                        sub_names |-> r.sub_names,
                        ses_names |-> r.ses_names]
            /\ UNCHANGED <<central, top_level_folder, settings, used>>
    IN Ends(make_sub_folders(local, top_level_folder, used, sub_names, ses_names,
                             data_type, now_sub, now_ses))

MakeSubFolders(sub_names, ses_names, data_type, now_sub, now_ses) ==
    MakeWithin(MaxMakes, sub_names, ses_names, data_type, now_sub, now_ses)

\* the caller has seen how the call ended; what stays is the project
Return ==
    /\ last # NoCall
    /\ last' = NoCall
    /\ UNCHANGED <<local, central, top_level_folder, settings, used, nmade>>

Next ==
    \/ /\ last = NoCall
       /\ \E in \in MakeInputs :
            \E now_sub \in ClockReadings(in[1]),
               now_ses \in ClockReadings(IF in[2] = None THEN <<>> ELSE in[2][1]) :
                MakeSubFolders(in[1], in[2], in[3], now_sub, now_ses)
    \/ Return

Spec == Init /\ [][Next]_vars


----------------------------------------------------------------------------
(* Folder trees under changing configs: update_config, set_top_level_folder *)
(* and make_sub_folders with names that pass every check                    *)

Sub001 == <<"s", "u", "b", "-", "0", "0", "1">>
Sub002 == <<"s", "u", "b", "-", "0", "0", "2">>
Ses001 == <<"s", "e", "s", "-", "0", "0", "1">>
Ses002 == <<"s", "e", "s", "-", "0", "0", "2">>

\* <<sub_names, ses_names>> of the make_sub_folders calls
TreeNames == {
    <<<<Sub001>>, None>>,
    <<<<Sub001>>, Some(<<Ses001, Ses002>>)>>,
    <<<<Sub001, Sub002>>, Some(<<Ses001, Ses002>>)>>}

\* the data_type arguments
TreeDataTypes == {
    <<"all">>,
    <<"">>,
    <<"behav", "histology">>,
    <<"funcimg", "ephys">>,
    <<"ephys", "ephy">>}

\* the folder_name arguments of set_top_level_folder
TopLevelInputs == TopLevelFolders \cup {<<"r", "a", "w", "d", "a", "t">>}

\* a folder put by hand into a data-type folder that was made by hand
HandMade == <<Rawdata, Sub001, DataTypeName("histology"), <<"v", "i", "d", "e", "o">>>>

\* a project folder in which nothing was made yet, or one in which a subject's
\* data-type folder was made and filled by hand
InitTree ==
    /\ local \in {{}, Mkdir({}, HandMade)}
    /\ central = {}
    /\ settings = [top_level_folder |-> Rawdata]
    /\ top_level_folder = Rawdata
    /\ used = [k \in DataTypeKeys |-> TRUE]
    /\ last = NoCall
    /\ nmade = 0

\* project.update_config("use_<data type>", new_info), taken only while fewer
\* than MaxCalls calls changed the project
UpdateConfig(data_type_key, new_info) ==
    /\ last = NoCall
    /\ nmade < MaxCalls
    /\ nmade' = nmade + 1
    /\ used' = update_config(used, data_type_key, new_info)
    /\ top_level_folder' = settings.top_level_folder
    /\ last' = [op |-> "update_config", args |-> <<data_type_key, new_info>>,
                err |-> "none", sub_names |-> <<>>, ses_names |-> None]
    /\ UNCHANGED <<local, central, settings>>

\* project.set_top_level_folder(folder_name)
SetTopLevelFolder(folder_name) ==
    LET Ends(r) ==
            /\ r.err = "none" => nmade < MaxCalls
            /\ nmade' = IF r.err = "none" THEN nmade + 1 ELSE nmade
            /\ top_level_folder' = r.top
            /\ settings' = r.settings
            /\ last' = [op |-> "set_top_level_folder", args |-> <<folder_name>>,
                        err |-> r.err, sub_names |-> <<>>, ses_names |-> None]
    IN /\ last = NoCall
       /\ Ends(set_top_level_folder(top_level_folder, settings, folder_name))
       /\ UNCHANGED <<local, central, used>>

\* make_sub_folders with the names and data types of the tree calls
MakeTree ==
    /\ last = NoCall
    /\ \E names \in TreeNames, data_type \in TreeDataTypes :
         \E now \in ClockReadings(names[1]) :
            MakeWithin(MaxCalls, names[1], names[2], data_type, now, now)

NextTree ==
    \/ \E k \in DataTypeKeys, b \in BOOLEAN : UpdateConfig(k, b)
    \/ \E f \in TopLevelInputs : SetTopLevelFolder(f)
    \/ MakeTree
    \/ Return

SpecTree == InitTree /\ [][NextTree]_vars

----------------------------------------------------------------------------
(* The next subject and session number of a project that is made, uploaded *)
(* and cleared locally                                                      *)

Sub3 == <<"s", "u", "b", "-", "3">>

\* <<sub_names, ses_names>> of the make_sub_folders calls
NumberedNames == {
    << <<<<"0", "0", "1">>, <<"0", "0", "2">>>>, None >>,
    << <<<<"3">>>>, None >>,
    << <<<<"0", "0", "4">>, <<"0", "0", "5">>>>, None >>,
    << <<Sub3>>, Some(<<<<"0", "0", "1">>, <<"0", "0", "2">>>>) >>,
    << <<Sub3>>, Some(<<<<"0", "4">>, <<"0", "0", "0", "5">>>>) >>}

\* the sub arguments of get_next_ses_number: a subject that is made and one
\* that is not
SubArgs == {Sub3, <<"s", "u", "b", "-", "9">>}

InitNext ==
    /\ local = {}
    /\ central = {}
    /\ settings = [top_level_folder |-> Rawdata]
    /\ top_level_folder = Rawdata
    /\ used = [k \in DataTypeKeys |-> TRUE]
    /\ last = NoCall
    /\ nmade = 0

\* make_sub_folders(sub_names, ses_names, "")
MakeNumbered ==
    /\ last = NoCall
    /\ \E names \in NumberedNames :
         \E now \in ClockReadings(names[1]) :
            MakeWithin(MaxCalls, names[1], names[2], <<"">>, now, now)

\* project.upload_all(dry_run)
UploadAll(dry_run) ==
    /\ last = NoCall
    /\ nmade < MaxCalls
    /\ nmade' = nmade + 1
    /\ central' = upload_all(local, central, top_level_folder, dry_run)
    /\ last' = [op |-> "upload_all", args |-> <<dry_run>>, err |-> "none",
                sub_names |-> <<>>, ses_names |-> None]
    /\ UNCHANGED <<local, top_level_folder, settings, used>>

\* the user removes, from the local project, every subject folder of the
\* working top-level folder (sub is None) or every session folder of sub
RemoveLocal(sub) ==
    /\ last = NoCall
    /\ nmade < MaxCalls
    /\ nmade' = nmade + 1
    /\ local' = {p \in local :
                    ~ /\ Len(p) > Len(get_base_folder(top_level_folder) \o sub)
                      /\ SubSeq(p, 1, Len(get_base_folder(top_level_folder) \o sub))
                            = get_base_folder(top_level_folder) \o sub}
    /\ last' = [op |-> "rmtree", args |-> <<sub>>, err |-> "none",
                sub_names |-> <<>>, ses_names |-> None]
    /\ UNCHANGED <<central, top_level_folder, settings, used>>

\* project.get_next_sub_number()
GetNextSubNumber ==
    LET Returns(r) ==
            last' = [op |-> "get_next_sub_number", args |-> <<>>, err |-> r.err,
                     nums |-> r.nums, sub_names |-> <<>>, ses_names |-> None]
    IN /\ last = NoCall
       /\ Returns(get_next_sub_number(local, central, top_level_folder))
       /\ UNCHANGED <<local, central, top_level_folder, settings, used, nmade>>

\* project.get_next_ses_number(sub)
GetNextSesNumber(sub) ==
    LET Returns(r) ==
            last' = [op |-> "get_next_ses_number", args |-> <<sub>>, err |-> r.err,
                     nums |-> r.nums, sub_names |-> <<>>, ses_names |-> None]
    IN /\ last = NoCall
       /\ Returns(get_next_ses_number(local, central, top_level_folder, sub))
       /\ UNCHANGED <<local, central, top_level_folder, settings, used, nmade>>

\* project.show_next_sub_number()
ShowNextSubNumber ==
    LET Prints(m) ==
            last' = [op |-> "show_next_sub_number", args |-> <<>>, err |-> m.err,
                     most_recent |-> m.most_recent, suggested |-> m.suggested,
                     sub_names |-> <<>>, ses_names |-> None]
    IN /\ last = NoCall
       /\ Prints(show_next_sub_number(local, central, top_level_folder))
       /\ UNCHANGED <<local, central, top_level_folder, settings, used, nmade>>

\* project.show_next_ses_number(sub)
ShowNextSesNumber(sub) ==
    LET Prints(m) ==
            last' = [op |-> "show_next_ses_number", args |-> <<sub>>, err |-> m.err,
                     most_recent |-> m.most_recent, suggested |-> m.suggested,
                     sub_names |-> <<>>, ses_names |-> None]
    IN /\ last = NoCall
       /\ Prints(show_next_ses_number(local, central, top_level_folder, sub))
       /\ UNCHANGED <<local, central, top_level_folder, settings, used, nmade>>

NextNext ==
    \/ MakeNumbered
    \/ \E dry_run \in BOOLEAN : UploadAll(dry_run)
    \/ \E sub \in {<<>>, <<Sub3>>} : RemoveLocal(sub)
    \/ \E f \in TopLevelInputs : SetTopLevelFolder(f)
    \/ GetNextSubNumber
    \/ \E sub \in SubArgs : GetNextSesNumber(sub)
    \/ ShowNextSubNumber
    \/ \E sub \in SubArgs : ShowNextSesNumber(sub)
    \/ Return

SpecNext == InitNext /\ [][NextNext]_vars

----------------------------------------------------------------------------
(* Transfers of the entire project, some of which fail *)

InitTransfer ==
    /\ local = {}
    /\ central = {}
    /\ settings = [top_level_folder |-> Rawdata]
    /\ top_level_folder = Rawdata
    /\ used = [k \in DataTypeKeys |-> TRUE]
    /\ last = NoCall
    /\ nmade = 0

\* a call of upload_entire_project or download_entire_project in which the
\* transfers of the top-level folders in fails raise
TransferEntireProject(op, direction, fails) ==
    LET Ends(r) ==
            /\ top_level_folder' = r.top
            /\ local' = r.local
            /\ central' = r.central
            /\ last' = [op |-> op, args |-> <<>>, err |-> r.err, fails |-> fails,
                        invoked |-> r.invoked, sub_names |-> <<>>, ses_names |-> None]
    IN /\ last = NoCall
       /\ nmade < MaxCalls
       /\ nmade' = nmade + 1
       /\ Ends(transfer_entire_project(top_level_folder, local, central, direction, fails))
       /\ UNCHANGED <<settings, used>>

\* project.upload_entire_project()
UploadEntireProject(fails) == TransferEntireProject("upload_entire_project", "upload", fails)

\* project.download_entire_project()
DownloadEntireProject(fails) == TransferEntireProject("download_entire_project", "download", fails)

NextTransfer ==
    \/ MakeNumbered
    \/ \E f \in TopLevelInputs : SetTopLevelFolder(f)
    \/ \E fails \in SUBSET TopLevelFolders : UploadEntireProject(fails)
    \/ \E fails \in SUBSET TopLevelFolders : DownloadEntireProject(fails)
    \/ RemoveLocal(<<>>)
    \/ Return

SpecTransfer == InitTransfer /\ [][NextTransfer]_vars

----------------------------------------------------------------------------
(* format_names as a function of its arguments *)

\* the digits range endpoints are written with
EndpointDigits == {"0", "1"}

\* the strings of 1..n endpoint digits
RECURSIVE DigitStrings(_)
DigitStrings(n) ==
    IF n = 0 THEN {}
    ELSE {<<d>> : d \in EndpointDigits}
         \cup {Append(ds, d) : ds \in DigitStrings(n - 1), d \in EndpointDigits}

\* the pairs of endpoints as written
Endpoints ==
    {ab \in DigitStrings(MaxDigits) \X DigitStrings(MaxDigits) :
        int(ab[2]) - int(ab[1]) + 1 <= MaxSpan}

\* <head><a>@TO@<b><suffix>: one name per pair of endpoints, with and without
\* the prefix written, with and without trailing key-value pairs
RangeNames ==
    {head \o ab[1] \o TagTo \o ab[2] \o suffix :
        head \in {<<>>, Sub \o <<"-">>},
        ab \in Endpoints,
        suffix \in {<<>>, <<"_", "i", "d", "-", "7">>}}

\* names without tags
PlainNames == {
    <<"1">>,
    <<"s", "u", "b", "-", "1">>,
    <<"s", "u", "b", "-", "0", "1">>,
    <<"s", "u", "b", "_", "1">>,
    <<"s", "u", "b">>,
    <<"s", "e", "s", "-", "1">>}

\* the lists of at most n plain names
RECURSIVE PlainLists(_)
PlainLists(n) ==
    IF n = 0 THEN {<<>>}
    ELSE PlainLists(n - 1)
         \cup {Append(xs, x) : xs \in PlainLists(n - 1), x \in PlainNames}

\* lists that mix plain names, ranges and date tags
MixedLists == {
    <<<<"0", "0", "1">>, <<"s", "u", "b", "-", "0", "0", "1">>>>,
    <<<<"1", "1">>, <<"s", "u", "b", "-", "0", "0", "2">>, <<"3", "0", "3", "0", "3">>>>,
    <<<<"s", "u", "b", "-", "0", "0", "1">>, <<"s", "u", "b", "-", "0", "0", "1", "@", "T", "O", "@", "0", "0", "2">>>>,
    <<<<"s", "u", "b", "-", "1", "@", "T", "O", "@", "2">>, <<"s", "u", "b", "-", "2", "@", "T", "O", "@", "3">>>>,
    <<<<"0", " ", "1">>, <<"0", " ", "1">>>>,
    <<<<"s", "u", "b", "-", "0", "1", "@", "T", "O", "@", "0", "0", "3">>>>,
    <<<<"s", "u", "b", "-", "9", "@", "T", "O", "@", "1", "0", "_", "i", "d", "-", "7">>>>,
    <<<<"4">>, <<"s", "u", "b", "-", "4">>, <<"s", "u", "b", "-", "5", "@", "T", "O", "@", "5">>>>,
    <<<<"4">>, <<"4">>, <<"6", "@", "D", "A", "T", "E", "@", "@", "D", "A", "T", "E", "@">>>>,
    <<<<"s", "u", "b", "-", "1", "@", "T", "O", "@", "2", "_", "i", "d", "-", "1", "@", "T", "O", "@", "2">>>>,
    <<<<"s", "e", "s", "-", "0", "0", "1", "@", "D", "A", "T", "E", "@">>, <<"s", "e", "s", "-", "0", "0", "1", "_", "@", "D", "A", "T", "E", "@">>>>,
    <<<<"s", "e", "s", "-", "0", "0", "1", "@", "D", "A", "T", "E", "@", "i", "d", "-", "1">>>>,
    <<<<"1", "@", "T", "I", "M", "E", "@", "x", "@", "T", "I", "M", "E", "@">>>>,
    <<<<"2", "@", "D", "A", "T", "E", "@", "@", "T", "I", "M", "E", "@">>>>,
    <<<<"3", "_", "@", "D", "A", "T", "E", "T", "I", "M", "E", "@">>>>,
    <<<<"s", "u", "b", "4", "@", "T", "O", "@", "6">>>>,
    <<<<"s", "u", "b", "-", "2", "@", "T", "O", "@", "1">>>>,
    <<<<"x", "1", "@", "T", "O", "@", "3">>>>,
    <<<<"1", "@", "T", "I", "M", "E", "@">>>>,
    <<<<"s", "e", "s", "-", "0", "0", "1", "_", "@", "T", "I", "M", "E", "@", "_", "i", "d", "-", "1">>>>,
    <<<<"5", "@", "D", "A", "T", "E", "T", "I", "M", "E", "@", "x">>>>,
    <<<<"s", "u", "b", "-", "1", "@", "T", "O", "@", "2", "x">>>>,
    <<<<"s", "u", "b", "-", "1", "@", "T", "O", "@", "2", "_", "@", "D", "A", "T", "E", "@">>>>,
    <<<<"1", "_", "@", "D", "A", "T", "E", "@", "_", "@", "D", "A", "T", "E", "@">>>>,
    <<<<"7", "_", "@", "D", "A", "T", "E", "T", "I", "M", "E", "@", "@", "D", "A", "T", "E", "@">>>>}

FormatInputs ==
    {<<name>> : name \in RangeNames} \cup PlainLists(MaxNames) \cup MixedLists

Prefixes == {Sub, Ses, Sub \o <<"-">>, Ses \o <<"-">>}

InitFormat ==
    /\ local = {}
    /\ central = {}
    /\ settings = [top_level_folder |-> Rawdata]
    /\ top_level_folder = Rawdata
    /\ used = [k \in DataTypeKeys |-> TRUE]
    /\ nmade = 0
    /\ \E names \in FormatInputs, prefix \in Prefixes :
        last = [op |-> "input", args |-> <<names, prefix>>, err |-> "none",
                sub_names |-> <<>>, ses_names |-> None, now |-> None]

\* formatting.format_names(names, prefix)
FormatNames ==
    LET Returns(r, now) ==
            last' = [last EXCEPT !.op = "format_names", !.now = now,
                                 !.err = r.err, !.sub_names = r.names]
    IN /\ last.op = "input"
       /\ \E now \in ClockReadings(last.args[1]) :
            Returns(format_names(last.args[1], last.args[2], now), now)
       /\ UNCHANGED <<local, central, top_level_folder, settings, used, nmade>>

\* DataShuttle.check_name_formatting(names, prefix): what it prints, or the
\* error it raises
check_name_formatting(names, prefix, now) ==
    IF prefix \notin {Sub, Ses} THEN Raise("prefix")
    ELSE format_names(names, prefix, now)

CheckNameFormatting ==
    LET Returns(r, now) ==
            last' = [last EXCEPT !.op = "check_name_formatting", !.now = now,
                                 !.err = r.err, !.sub_names = r.names]
    IN /\ last.op = "input"
       /\ \E now \in ClockReadings(last.args[1]) :
            Returns(check_name_formatting(last.args[1], last.args[2], now), now)
       /\ UNCHANGED <<local, central, top_level_folder, settings, used, nmade>>

NextFormat == FormatNames \/ CheckNameFormatting

SpecFormat == InitFormat /\ [][NextFormat]_vars


----------------------------------------------------------------------------
(* make_folder_trees called again, and the log of the folders made *)

\* the lists of a list, one after the other
RECURSIVE Concat(_)
Concat(lists) == IF Len(lists) = 0 THEN <<>> ELSE Head(lists) \o Concat(Tail(lists))

\* the paths make_folder_trees passes to make_folders, in the order of the
\* calls: every subject folder, its data-type folders with their metadata
\* folders, and the same for every session folder of the subject
folder_paths(base_folder, usedflags, sub_names, ses_names, data_type) ==
    LET Keys(level) ==
            ListOf({key \in get_data_type_items(data_type) :
                        usedflags[key] /\ DataTypeLevel(key) = level})
        DataTypes(path, keys) ==
            IF data_type = <<"">> THEN <<>>
            ELSE Concat([k \in 1..Len(keys) |->
                            <<Append(path, DataTypeName(keys[k])),
                              path \o <<DataTypeName(keys[k]), MetaFolder>>>>])
        Session(ses_path) == <<ses_path>> \o DataTypes(ses_path, Keys("ses"))
        Subject(sub_path) ==
            <<sub_path>> \o DataTypes(sub_path, Keys("sub"))
                \o Concat([j \in 1..Len(ses_names) |->
                              Session(Append(sub_path, ses_names[j]))])
    IN Concat([i \in 1..Len(sub_names) |-> Subject(Append(base_folder, sub_names[i]))])

\* logs every path it is given
LogEveryPath(fs, paths, made) ==
    [fs |-> fs \cup UNION {Mkdir(fs, paths[i]) : i \in 1..Len(paths)},
     log |-> made \o paths]

\* folders.make_folders(paths, log=True) for a list of paths: the filesystem
\* after it and the paths of its "Made folder at path" log lines
RECURSIVE make_folders_log(_, _, _)
make_folders_log(fs, paths, made) ==
    IF Len(paths) = 0 THEN [fs |-> fs, log |-> made]
    ELSE IF ~IsDir(fs, Head(paths))
    THEN make_folders_log(Mkdir(fs, Head(paths)), Tail(paths), Append(made, Head(paths)))
    ELSE make_folders_log(fs, Tail(paths), made)

\* folders.make_folder_trees(cfg, sub_names, ses_names, data_type, log=True)
MakeFolderTrees ==
    LET Ends(r, args) ==
            /\ local' = r.fs
            /\ last' = [op |-> "make_folder_trees", args |-> args, err |-> r.err,
                        log |-> IF r.err # "none" THEN <<>>
                                ELSE make_folders_log(
                                        local,
                                        folder_paths(get_base_folder(top_level_folder),
                                                     used, args[1], args[2], args[3]),
                                        <<>>).log,
                        sub_names |-> args[1], ses_names |-> Some(args[2])]
    IN /\ last = NoCall
       /\ nmade < MaxCalls
       /\ nmade' = nmade + 1
       /\ \E sub_names \in {<<Sub001>>, <<Sub001, Sub002>>},
             ses_names \in {<<>>, <<Ses001, Ses002>>},
             data_type \in TreeDataTypes :
            Ends(make_folder_trees(local, get_base_folder(top_level_folder), used,
                                   sub_names, ses_names, data_type),
                 <<sub_names, ses_names, data_type>>)
       /\ UNCHANGED <<central, top_level_folder, settings, used>>

NextMake ==
    \/ \E k \in {"behav", "histology"}, b \in BOOLEAN : UpdateConfig(k, b)
    \/ MakeFolderTrees
    \/ Return

SpecMake == InitTree /\ [][NextMake]_vars

----------------------------------------------------------------------------
(* The check of a configuration, as a pure function *)

\* canonical_configs.get_canonical_config_dict().keys()
get_canonical_config_dict == <<"local_path", "remote_path", "connection_method", "remote_host_id", "remote_host_username", "use_ephys", "use_behav", "use_funcimg", "use_histology">>

\* canonical_configs.get_data_types()
get_data_types == <<"use_ephys", "use_behav", "use_funcimg", "use_histology">>

\* "/".join(parts)
RECURSIVE JoinParts(_)
JoinParts(parts) ==
    IF Len(parts) = 0 THEN <<>>
    ELSE IF Len(parts) = 1 THEN parts[1]
    ELSE parts[1] \o <<"/">> \o JoinParts(Tail(parts))

\* pathlib.PurePosixPath(s).as_posix(), s without two leading slashes: the
\* empty parts and the "." parts are dropped, and the path without parts and
\* without root is "."
as_posix(s) ==
    LET Root == IF Len(s) > 0 /\ s[1] = "/" THEN <<"/">> ELSE <<>>
        Posix(joined) == IF Root \o joined = <<>> THEN <<".">> ELSE Root \o joined
    IN Posix(JoinParts(SelectSeq(Split(s, <<"/">>),
                                 LAMBDA part : part # <<>> /\ part # <<".">>)))

\* config_dict[path_].as_posix()[0] == "~"
starts_with_tilde(config_dict, path_) == as_posix(config_dict[path_][1])[1] = "~"

\* canonical_configs.check_config_types(config_dict): a path is a Path (Some)
\* or None, which is of no permitted type; the other values are of their types
check_config_types(config_dict) ==
    IF config_dict.local_path = None \/ config_dict.remote_path = None
    THEN "type" ELSE "none"

\* canonical_configs.check_dict_values_and_inform_user(config_dict): the
\* error raised, or "none"
check_dict_values_and_inform_user(config_dict) ==
    IF \E key \in Range(get_canonical_config_dict) : key \notin Range(config_dict.keys)
    THEN "missing_key"
    ELSE IF \E key \in Range(config_dict.keys) : key \notin Range(get_canonical_config_dict)
    THEN "invalid_key"
    ELSE IF check_config_types(config_dict) # "none"
    THEN check_config_types(config_dict)
    ELSE IF config_dict.keys # get_canonical_config_dict
    THEN "key_order"
    ELSE IF config_dict.connection_method \notin {"ssh", "local_filesystem"}
    THEN "connection_method"
    ELSE IF \E path_ \in {"local_path", "remote_path"} : starts_with_tilde(config_dict, path_)
    THEN "tilde"
    ELSE IF ~ \E key \in Range(get_data_types) : config_dict[key]
    THEN "no_data_type"
    ELSE IF /\ config_dict.connection_method = "ssh"
            /\ \/ config_dict.remote_host_id \in {None, Some("")}
               \/ config_dict.remote_host_username \in {None, Some("")}
    THEN "ssh_settings"
    ELSE "none"

\* the paths given: a Path, or None
PathInputs == {
    Some(<<"/", "d">>),
    Some(<<"/", "~", "d">>),
    Some(<<"~", "/", "d">>),
    Some(<<"~">>),
    Some(<<"d">>),
    Some(<<".", "/", "~", "d">>),
    Some(<<".", ".", "/", "d">>),
    Some(<<>>),
    None}

\* the keys given: the canonical ones, without one, with one more, and in
\* another order
KeyInputs == {
    get_canonical_config_dict,
    Tail(get_canonical_config_dict),
    get_canonical_config_dict \o <<"use_imaging">>,
    <<"remote_path", "local_path">> \o Tail(Tail(get_canonical_config_dict))}

ConfigInputs ==
    {[keys |-> keys, local_path |-> local_path, remote_path |-> remote_path,
      connection_method |-> connection_method,
      remote_host_id |-> remote_host_id,
      remote_host_username |-> remote_host_username,
      use_ephys |-> use_ephys, use_behav |-> use_behav,
      use_funcimg |-> FALSE, use_histology |-> FALSE] :
        keys \in KeyInputs, local_path \in PathInputs, remote_path \in PathInputs,
        connection_method \in {"ssh", "local_filesystem", "ftp"},
        remote_host_id \in {None, Some(""), Some("host")},
        remote_host_username \in {None, Some("user")},
        use_ephys \in BOOLEAN, use_behav \in BOOLEAN}

InitConfigs ==
    /\ local = {}
    /\ central = {}
    /\ settings = [top_level_folder |-> Rawdata]
    /\ top_level_folder = Rawdata
    /\ used = [k \in DataTypeKeys |-> TRUE]
    /\ nmade = 0
    /\ \E config_dict \in ConfigInputs :
        last = [op |-> "input", args |-> <<config_dict>>, err |-> "none",
                sub_names |-> <<>>, ses_names |-> None]

\* canonical_configs.check_dict_values_and_inform_user(config_dict)
CheckDictValues ==
    /\ last.op = "input"
    /\ last' = [last EXCEPT !.op = "check_dict_values_and_inform_user",
                            !.err = check_dict_values_and_inform_user(last.args[1])]
    /\ UNCHANGED <<local, central, top_level_folder, settings, used, nmade>>

NextConfigs == CheckDictValues

SpecConfigs == InitConfigs /\ [][NextConfigs]_vars

----------------------------------------------------------------------------
(* The search for folders and for wildcard names, as pure functions.  A   *)
(* machine is what one side of the project holds, the paths of its        *)
(* directories and of its files below the project root; cfg tells the     *)
(* connection method and whether the server accepts the connection        *)

\* ssh.get_list_of_folder_names_over_sftp(sftp, search_path, search_prefix)
get_list_of_folder_names_over_sftp(machine, search_path, search_prefix) ==
    LET Listed(paths) ==
            {p[Len(p)] : p \in {e \in paths :
                /\ Len(e) = Len(search_path) + 1
                /\ SubSeq(e, 1, Len(search_path)) = search_path
                /\ FnMatch(search_prefix, e[Len(e)])}}
    IN IF ~IsDir(machine.dirs, search_path)
       THEN [err |-> "none", folders |-> {}, files |-> {}]
       ELSE [err |-> "none", folders |-> Listed(machine.dirs),
             files |-> Listed(machine.files)]

\* ssh.search_ssh_central_for_folders(search_path, search_prefix, cfg)
search_ssh_central_for_folders(machine, search_path, search_prefix, cfg) ==
    IF ~cfg.connects
    THEN [err |-> "could_not_connect", folders |-> {}, files |-> {}]
    ELSE get_list_of_folder_names_over_sftp(machine, search_path, search_prefix)

\* folders.search_for_folders(cfg, search_path, local_or_central,
\* search_prefix); os.path.isdir tells the directories from the files
search_for_folders(machine, cfg, search_path, local_or_central, search_prefix) ==
    IF local_or_central = "central" /\ cfg.connection_method = "ssh"
    THEN search_ssh_central_for_folders(machine, search_path, search_prefix, cfg)
    ELSE IF ~IsDir(machine.dirs, search_path)
    THEN [err |-> "none", folders |-> {}, files |-> {}]
    ELSE [err |-> "none",
          folders |-> search_filesystem_path_for_folders(machine.dirs, search_path, search_prefix),
          files |-> search_filesystem_path_for_folders(machine.files, search_path, search_prefix)]

\* folders.search_sub_or_ses_level(cfg, base_folder, local_or_central, sub,
\* search_str=search_str)
search_sub_or_ses_level(machine, cfg, base_folder, local_or_central, sub, search_str) ==
    search_for_folders(machine, cfg,
                       IF sub # <<>> THEN Append(base_folder, sub) ELSE base_folder,
                       local_or_central, search_str)

\* canonical_tags.tags("*")
TagWildcard == <<"@", "*", "@">>

\* the loop of search_for_wildcards over all_names, from the i-th name on
RECURSIVE wildcards_loop(_, _, _, _, _, _, _, _)
wildcards_loop(machine, cfg, base_folder, local_or_central, all_names, sub, i, new_all_names) ==
    LET Searched(r) ==
            IF r.err # "none" THEN Raise(r.err)
            ELSE wildcards_loop(machine, cfg, base_folder, local_or_central,
                                all_names, sub, i + 1,
                                new_all_names \o ListOf(r.folders))
    IN IF i > Len(all_names) THEN Ok(new_all_names)
       ELSE IF Contains(all_names[i], TagWildcard)
       THEN Searched(search_sub_or_ses_level(
                        machine, cfg, base_folder, local_or_central, sub,
                        Replace(all_names[i], TagWildcard, <<"*">>)))
       ELSE wildcards_loop(machine, cfg, base_folder, local_or_central,
                           all_names, sub, i + 1,
                           Append(new_all_names, all_names[i]))

\* returns the names as the loop gathered them
WildcardsKeepDuplicates(machine, cfg, base_folder, local_or_central, all_names, sub) ==
    wildcards_loop(machine, cfg, base_folder, local_or_central, all_names, sub, 1, <<>>)

\* folders.search_for_wildcards(cfg, base_folder, local_or_central, all_names,
\* sub): list(set(new_all_names)), in the order the set gives
search_for_wildcards(machine, cfg, base_folder, local_or_central, all_names, sub) ==
    LET Unique(r) == IF r.err # "none" THEN r ELSE Ok(ListOf(Range(r.names)))
    IN Unique(wildcards_loop(machine, cfg, base_folder, local_or_central,
                             all_names, sub, 1, <<>>))

\* a file the user keeps next to the folders
DsStore == <<".", "D", "S", "_", "S", "t", "o", "r", "e">>
Sub003 == <<"s", "u", "b", "-", "0", "0", "3">>
Ses003 == <<"s", "e", "s", "-", "0", "0", "3">>

\* the directories and the files a machine can hold
DirCandidates == {<<Rawdata>>, <<Rawdata, Sub001>>, <<Rawdata, Sub002>>, <<Rawdata, MetaFolder>>, <<Rawdata, Sub001, Ses001>>, <<Rawdata, Sub001, Ses002>>}
FileCandidates == {<<Rawdata, Sub003>>, <<Rawdata, DsStore>>, <<Rawdata, Sub001, Ses003>>}

\* the machines: every directory and every file lies in a directory
Machines ==
    {m \in [dirs : SUBSET DirCandidates, files : SUBSET FileCandidates] :
        /\ \A p \in m.dirs : Len(p) = 1 \/ SubSeq(p, 1, Len(p) - 1) \in m.dirs
        /\ \A f \in m.files : SubSeq(f, 1, Len(f) - 1) \in m.dirs}

Cfgs == [connection_method : {"ssh", "local_filesystem"}, connects : BOOLEAN]

SearchPaths == {<<Rawdata>>, <<Rawdata, Sub001>>, <<Derivatives>>}

SearchPrefixes == {<<"*">>, <<"s", "u", "b", "-", "*">>, <<"*", "0", "0", "*">>, <<".", "*">>, Sub001}

\* the lists of names searched for wildcards
WildcardNames == {
    <<<<"s", "u", "b", "-", "@", "*", "@">>>>,
    <<Sub001, <<"s", "u", "b", "-", "@", "*", "@">>>>,
    <<<<"s", "u", "b", "-", "0", "0", "@", "*", "@">>, <<"s", "u", "b", "-", "@", "*", "@", "2">>>>,
    <<<<"s", "u", "b", "-", "9", "@", "*", "@">>, <<"@", "*", "@">>>>,
    <<<<"@", "*", "@">>>>,
    <<Sub001, Sub003>>,
    <<Ses001, <<"s", "e", "s", "-", "@", "*", "@">>>>}

InitSearch ==
    /\ local = {}
    /\ central = {}
    /\ settings = [top_level_folder |-> Rawdata]
    /\ top_level_folder = Rawdata
    /\ used = [k \in DataTypeKeys |-> TRUE]
    /\ nmade = 0
    /\ \E machine \in Machines :
        last = [op |-> "input", args |-> <<machine>>, err |-> "none",
                sub_names |-> <<>>, ses_names |-> None]

\* folders.search_for_folders(cfg, search_path, local_or_central, search_prefix)
SearchForFolders ==
    LET Returns(r, args) ==
            last' = [op |-> "search_for_folders", args |-> args, err |-> r.err,
                     folders |-> r.folders, files |-> r.files,
                     sub_names |-> <<>>, ses_names |-> None]
    IN /\ last.op = "input"
       /\ \E cfg \in Cfgs, search_path \in SearchPaths,
             local_or_central \in {"local", "central"},
             search_prefix \in SearchPrefixes :
            Returns(search_for_folders(last.args[1], cfg, search_path,
                                       local_or_central, search_prefix),
                    <<last.args[1], cfg, search_path, local_or_central, search_prefix>>)
       /\ UNCHANGED <<local, central, top_level_folder, settings, used, nmade>>

\* folders.search_for_wildcards(cfg, base_folder, local_or_central, all_names, sub)
SearchForWildcards ==
    LET Returns(r, args) ==
            last' = [op |-> "search_for_wildcards", args |-> args, err |-> r.err,
                     names |-> r.names, sub_names |-> <<>>, ses_names |-> None]
    IN /\ last.op = "input"
       /\ \E cfg \in Cfgs, local_or_central \in {"local", "central"},
             all_names \in WildcardNames, sub \in {<<>>, Sub001, Sub003} :
            Returns(search_for_wildcards(last.args[1], cfg, <<Rawdata>>,
                                         local_or_central, all_names, sub),
                    <<last.args[1], cfg, <<Rawdata>>, local_or_central, all_names, sub>>)
       /\ UNCHANGED <<local, central, top_level_folder, settings, used, nmade>>

NextSearch == SearchForFolders \/ SearchForWildcards

SpecSearch == InitSearch /\ [][NextSearch]_vars

----------------------------------------------------------------------------
(* What the claims speak of *)

\* the names of the folders directly inside path
Children(fs, path) ==
    {p[Len(p)] : p \in {q \in fs : /\ Len(q) = Len(path) + 1
                                   /\ SubSeq(q, 1, Len(path)) = path}}

\* name starts with <kind>-<digits>, and the digits end the first key-value pair
HasKey(name, kind) ==
    LET from == Len(kind) + 2
        to   == DigitRunEnd(name, from)
    IN /\ MatchesAt(name, kind \o <<"-">>, 1)
       /\ to >= from
       /\ (to = Len(name) \/ name[to + 1] = Underscore)

\* the integer value of that key
KeyOf(name, kind) ==
    int(SubSeq(name, Len(kind) + 2, DigitRunEnd(name, Len(kind) + 2)))

SharedKey(names, others, kind) ==
    \E a \in names, b \in others :
        HasKey(a, kind) /\ HasKey(b, kind) /\ KeyOf(a, kind) = KeyOf(b, kind)

MadeCall == last.op = "make_sub_folders"

\* C1: no two subject folders of the current top-level folder share the
\* integer value of their sub- key, and no two session folders of one subject
\* share the integer value of their ses- key
C1_NoSiblingsShareKey ==
    LET subjects == Children(local, <<top_level_folder>>)
    IN /\ \A a \in subjects : ~SharedKey({a}, subjects \ {a}, Sub)
       /\ \A sub \in subjects :
            LET sessions == Children(local, <<top_level_folder, sub>>)
            IN \A a \in sessions : ~SharedKey({a}, sessions \ {a}, Ses)

\* C2: a call without session names whose names, like those of the subject
\* folders there are, have an integer sub- key fails with the duplicate-key
\* error exactly when a proposed key value equals that of an existing subject
\* folder; without such a folder (and with a valid data type) it makes every
\* proposed subject folder
C2_SubKeyCollision ==
    [][ LET proposed == Range(last'.sub_names)
            existing == Children(local, <<top_level_folder>>)
        IN (/\ last'.op = "make_sub_folders"
            /\ last'.args[2] = None
            /\ proposed # {}
            /\ \A n \in proposed \cup existing : HasKey(n, Sub))
           => /\ last'.err = "duplicate_key" <=> SharedKey(proposed, existing, Sub)
              /\ (~SharedKey(proposed, existing, Sub)
                    /\ check_data_type_is_valid(last'.args[3]))
                 => /\ last'.err = "none"
                    /\ \A n \in proposed : <<top_level_folder, n>> \in local'
      ]_vars

C2_Witness ==
    /\ MadeCall
    /\ last.err = "duplicate_key"
    /\ last.args[1] = <<<<"s", "u", "b", "-", "1">>>>
    /\ last.args[2] = None
    /\ <<Rawdata, <<"s", "u", "b", "-", "0", "0", "1", "_", "i", "d", "-", "1", "2", "3">>>> \in local

\* C3: a call with session names that have an integer ses- key fails with the
\* duplicate-key error exactly when, under the folder of one of its subjects,
\* a session folder has the key value of a proposed session
C3_SesKeyCollisionPerSubject ==
    [][ LET subs == Range(last'.sub_names)
            sess == IF last'.ses_names = None THEN {} ELSE Range(last'.ses_names[1])
            collide == \E sub \in subs :
                SharedKey(sess, Children(local, <<top_level_folder, sub>>), Ses)
        IN (/\ last'.op = "make_sub_folders"
            /\ last'.args[2] # None
            /\ subs # {} /\ sess # {}
            /\ \A n \in sess : HasKey(n, Ses))
           => (last'.err = "duplicate_key" <=> collide)
      ]_vars

C3_Witness ==
    /\ MadeCall
    /\ last.err = "duplicate_key"
    /\ last.args[1] = <<<<"0", "0", "3">>, <<"s", "u", "b", "-", "1">>>>
    /\ last.args[2] = Some(<<<<"1", "_", "@", "D", "A", "T", "E", "@">>>>)
    /\ <<Rawdata, <<"s", "u", "b", "-", "1">>, <<"s", "e", "s", "-", "0", "0", "1">>>> \in local
    /\ <<Rawdata, <<"s", "u", "b", "-", "0", "0", "1", "_", "i", "d", "-", "1", "2", "3">>, <<"s", "e", "s", "-", "0", "0", "1">>>> \in local
    /\ <<Rawdata, <<"s", "u", "b", "-", "0", "0", "3">>>> \notin local

----------------------------------------------------------------------------
(* Name formatting *)

\* a call of format_names, directly or through check_name_formatting, that
\* got as far as format_names
Formatted ==
    /\ last.op \in {"format_names", "check_name_formatting"}
    /\ last.err # "prefix"

\* the name as it is once prefixed
Prefixed(name, prefix) ==
    IF MatchesAt(name, prefix, 1) THEN name ELSE prefix \o name

PrefixedList(names, prefix) == [i \in 1..Len(names) |-> Prefixed(names[i], prefix)]

HasTag(name) ==
    \E tag \in {TagTo, TagDate, TagTime, TagDatetime} : Contains(name, tag)

\* where the parts of <prefix><a>@TO@<b><suffix> end in name
LeftEnd(name, prefix) == DigitRunEnd(name, Len(prefix) + 1)

RightEnd(name, prefix) ==
    DigitRunEnd(name, LeftEnd(name, prefix) + Len(TagTo) + 1)

RangeLeft(name, prefix) == SubSeq(name, Len(prefix) + 1, LeftEnd(name, prefix))

RangeRight(name, prefix) ==
    SubSeq(name, LeftEnd(name, prefix) + Len(TagTo) + 1, RightEnd(name, prefix))

RangeSuffix(name, prefix) == SubSeq(name, RightEnd(name, prefix) + 1, Len(name))

\* name is <prefix><a>@TO@<b><suffix> with a < b, the suffix empty or a run of
\* further key-value pairs, and no date or time tag in it
IsRangeName(name, prefix) ==
    /\ MatchesAt(name, prefix, 1)
    /\ LeftEnd(name, prefix) > Len(prefix)
    /\ MatchesAt(name, TagTo, LeftEnd(name, prefix) + 1)
    /\ RightEnd(name, prefix) > LeftEnd(name, prefix) + Len(TagTo)
    /\ (RightEnd(name, prefix) = Len(name) \/ name[RightEnd(name, prefix) + 1] = Underscore)
    /\ int(RangeLeft(name, prefix)) < int(RangeRight(name, prefix))
    /\ \A tag \in {TagDate, TagTime, TagDatetime} : ~Contains(name, tag)

\* a call that formats one range name
FormattedRange ==
    /\ Formatted
    /\ Len(last.args[1]) = 1
    /\ IsRangeName(Prefixed(last.args[1][1], last.args[2]), last.args[2])

\* the number in an expanded name that has the given start and end
NumberIn(name, prefix, suffix) ==
    SubSeq(name, Len(prefix) + 1, Len(name) - Len(suffix))

\* C5: a range name <prefix><a>@TO@<b><suffix> with a < b expands to
\* b - a + 1 names, the k-th of them the prefix, the number a + k - 1 and the suffix
C5_RangeExpansion ==
    FormattedRange =>
        LET prefix == last.args[2]
            name   == Prefixed(last.args[1][1], prefix)
            a      == int(RangeLeft(name, prefix))
            b      == int(RangeRight(name, prefix))
            suffix == RangeSuffix(name, prefix)
            out    == last.sub_names
        IN /\ last.err = "none"
           /\ Len(out) = b - a + 1
           /\ \A k \in 1..Len(out) :
                LET number == NumberIn(out[k], prefix, suffix)
                IN /\ Len(out[k]) > Len(prefix) + Len(suffix)
                   /\ out[k] = prefix \o number \o suffix
                   /\ AllDigits(number)
                   /\ int(number) = a + k - 1

\* C6: the numbers of the names one range expands to all have the width of
\* the wider of the two endpoints as written
C6_SameWidth ==
    (FormattedRange /\ last.err = "none") =>
        LET prefix == last.args[2]
            name   == Prefixed(last.args[1][1], prefix)
            width  == Max(Len(RangeLeft(name, prefix)), Len(RangeRight(name, prefix)))
            suffix == RangeSuffix(name, prefix)
        IN \A k \in 1..Len(last.sub_names) :
              Len(NumberIn(last.sub_names[k], prefix, suffix)) = width

\* C7: no name occurs twice in a list format_names returns
C7_NoDuplicates ==
    (Formatted /\ last.err = "none") => ~HasDuplicates(last.sub_names)

\* C8 as stated: a list with two names equal after prefixing fails with the
\* duplicate-name error
C8_DuplicateAlwaysReported ==
    (Formatted /\ HasDuplicates(PrefixedList(last.args[1], last.args[2])))
        => last.err = "duplicate_name"

\* C8: a list of names without spaces in which two names are equal after
\* prefixing fails with the duplicate-name error, whatever range or date tags
\* its names hold
C8_DuplicateNameFirst ==
    (/\ Formatted
     /\ HasDuplicates(PrefixedList(last.args[1], last.args[2]))
     /\ \A i \in 1..Len(last.args[1]) : ~Contains(last.args[1][i], Space))
        => last.err = "duplicate_name"

C8_Witness ==
    /\ last.op = "format_names"
    /\ last.err = "duplicate_name"
    /\ last.args = <<<<<<"4">>, <<"s", "u", "b", "-", "4">>, <<"s", "u", "b", "-", "5", "@", "T", "O", "@", "5">>>>, <<"s", "u", "b", "-">>>>

\* C9: with kind "sub" or "ses", every name returned starts with "<kind>-":
\* a name already starting with it is returned as it is, any other name with
\* "<kind>-" put before it
C9_KindGivesDashPrefix ==
    (Formatted /\ last.args[2] \in {Sub, Ses} /\ last.err = "none") =>
        LET dashed == last.args[2] \o <<"-">>
        IN /\ \A i \in 1..Len(last.sub_names) : MatchesAt(last.sub_names[i], dashed, 1)
           /\ (\A i \in 1..Len(last.args[1]) : ~HasTag(last.args[1][i]))
                => last.sub_names = PrefixedList(last.args[1], dashed)

\* C10: for an accepted list of names without tags, a name that already has
\* the prefix is returned unchanged, and formatting the returned list again
\* returns it unchanged
C10_Idempotent ==
    (/\ Formatted
     /\ last.err = "none"
     /\ \A i \in 1..Len(last.args[1]) : ~HasTag(last.args[1][i]))
        => /\ Len(last.sub_names) = Len(last.args[1])
           /\ \A i \in 1..Len(last.args[1]) :
                MatchesAt(last.args[1][i], last.args[2], 1)
                    => last.sub_names[i] = last.args[1][i]
           /\ \A now \in Nows :
                format_names(last.sub_names, last.args[2], now) = Ok(last.sub_names)

C10_Witness ==
    /\ last.op = "format_names"
    /\ last.err = "none"
    /\ last.args = <<<<<<"s", "u", "b", "_", "1">>, <<"s", "u", "b", "-", "0", "1">>>>, <<"s", "u", "b", "-">>>>
    /\ last.sub_names = <<<<"s", "u", "b", "-", "s", "u", "b", "_", "1">>, <<"s", "u", "b", "-", "0", "1">>>>

----------------------------------------------------------------------------
(* Date and time tags *)

DateTags == {TagDate, TagTime, TagDatetime}

\* how often the tag is written in name
TimesIn(name, tag) == Cardinality({i \in 1..Len(name) : MatchesAt(name, tag, i)})

\* how many date or time tags name holds
DateTagsIn(name) ==
    TimesIn(name, TagDate) + TimesIn(name, TagTime) + TimesIn(name, TagDatetime)

\* C11: a list with a name that holds more than one date or time tag is
\* refused, and no name that is returned holds a date or time tag
C11_ManyDateTagsRefused ==
    Formatted =>
        /\ (\E i \in 1..Len(last.args[1]) : DateTagsIn(last.args[1][i]) > 1)
                => last.err # "none"
        /\ last.err = "none"
                => \A k \in 1..Len(last.sub_names) : DateTagsIn(last.sub_names[k]) = 0

\* what the tag stands for at the clock reading
TokenOf(tag, now) ==
    IF tag = TagDate THEN <<"d", "a", "t", "e", "-">> \o now.date
    ELSE IF tag = TagTime THEN <<"t", "i", "m", "e", "-">> \o now.time
    ELSE <<"d", "a", "t", "e", "-">> \o now.date
            \o <<"_", "t", "i", "m", "e", "-">> \o now.time

\* text with one underscore at its end, the one it has or one put there
EndUnderscored(text) ==
    IF Len(text) > 0 /\ text[Len(text)] = Underscore THEN text ELSE text \o <<Underscore>>

\* text, if any, with one underscore at its start
StartUnderscored(text) ==
    IF Len(text) = 0 \/ text[1] = Underscore THEN text ELSE <<Underscore>> \o text

\* a call that formats one name with one date or time tag and no range
FormattedOneTag ==
    /\ Formatted
    /\ Len(last.args[1]) = 1
    /\ DateTagsIn(last.args[1][1]) = 1
    /\ ~Contains(last.args[1][1], TagTo)
    /\ ~Contains(last.args[1][1], <<Space>>)

\* C12: a name with one date or time tag comes back with the tag replaced by
\* the date, time or date and time read from the clock, one underscore
\* between the text before the tag and it, and one between it and any text after
C12_TagReplacedAndDelimited ==
    FormattedOneTag =>
        LET name == Prefixed(last.args[1][1], last.args[2])
            tag  == CHOOSE t \in DateTags : Contains(name, t)
            at   == Find(name, tag)
        IN /\ last.err = "none"
           /\ last.sub_names =
                << EndUnderscored(SubSeq(name, 1, at - 1))
                    \o TokenOf(tag, last.now)
                    \o StartUnderscored(SubSeq(name, at + Len(tag), Len(name))) >>

C12_Witness ==
    /\ last.op = "format_names"
    /\ last.args = <<<<<<"s", "e", "s", "-", "0", "0", "1", "@", "D", "A", "T", "E", "@", "i", "d", "-", "1">>>>, <<"s", "e", "s", "-">>>>
    /\ last.sub_names = <<<<"s", "e", "s", "-", "0", "0", "1", "_", "d", "a", "t", "e", "-", "2", "0", "2", "3", "0", "1", "0", "2", "_", "i", "d", "-", "1">>>>

----------------------------------------------------------------------------
(* Ranges: all or nothing *)

\* the first key-value pair of name
FirstPair(name) ==
    SubSeq(name, 1, IF Contains(name, <<Underscore>>)
                    THEN Find(name, <<Underscore>>) - 1 ELSE Len(name))

\* pair is exactly <prefix><digits>@TO@<digits>
IsRangePair(pair, prefix) ==
    /\ MatchesAt(pair, prefix, 1)
    /\ LeftEnd(pair, prefix) > Len(prefix)
    /\ MatchesAt(pair, TagTo, LeftEnd(pair, prefix) + 1)
    /\ RightEnd(pair, prefix) > LeftEnd(pair, prefix) + Len(TagTo)
    /\ RightEnd(pair, prefix) = Len(pair)

\* how many names the list stands for: one per number of a range, one per other name
RECURSIVE NamesMeant(_, _, _)
NamesMeant(names, prefix, i) ==
    IF i > Len(names) THEN 0
    ELSE (IF Contains(names[i], TagTo)
          THEN int(RangeRight(names[i], prefix)) - int(RangeLeft(names[i], prefix)) + 1
          ELSE 1) + NamesMeant(names, prefix, i + 1)

\* C13: a list with a name that holds @TO@ is refused with nothing returned
\* when the first pair of that name is not <prefix><digits>@TO@<digits> or its
\* left number is not below its right number; when the list is accepted every
\* range in it is there in full
C13_RangeAllOrNothing ==
    LET prefix == last.args[2]
        names  == PrefixedList(last.args[1], prefix)
        ranges == {i \in 1..Len(names) : Contains(names[i], TagTo)}
    IN (Formatted /\ ranges # {}) =>
        /\ (\E i \in ranges : ~IsRangePair(FirstPair(names[i]), prefix))
                => last.err # "none"
        /\ (\E i \in ranges :
                /\ IsRangePair(FirstPair(names[i]), prefix)
                /\ int(RangeLeft(names[i], prefix)) >= int(RangeRight(names[i], prefix)))
                => last.err # "none"
        /\ last.err # "none" => last.sub_names = <<>>
        /\ last.err = "none" =>
                /\ Len(last.sub_names) = NamesMeant(names, prefix, 1)
                /\ Len(names) = 1 =>
                     \A k \in 1..Len(last.sub_names) :
                        /\ MatchesAt(last.sub_names[k], prefix, 1)
                        /\ LeftEnd(last.sub_names[k], prefix) > Len(prefix)
                        /\ int(RangeLeft(last.sub_names[k], prefix))
                                = int(RangeLeft(names[1], prefix)) + k - 1

C13_Witness ==
    /\ last.op = "format_names"
    /\ last.err = "range_format"
    /\ last.args = <<<<<<"s", "u", "b", "-", "1", "@", "T", "O", "@", "2", "x">>>>, <<"s", "u", "b", "-">>>>

----------------------------------------------------------------------------
(* Data-type folders *)

\* p is the folder of a data type, under a subject or under a session
IsDataTypeFolder(p) ==
    Len(p) \in {3, 4} /\ \E k \in DataTypeKeys : p[Len(p)] = DataTypeName(k)

DataTypeOf(p) == CHOOSE k \in DataTypeKeys : p[Len(p)] = DataTypeName(k)

DataTypeFolders(fs) == {p \in fs : IsDataTypeFolder(p)}

\* the step is a make_sub_folders call
MakeStep == last.op = "init" /\ last'.op = "make_sub_folders"

\* the step is a make_sub_folders call that made its folders
MadeStep == MakeStep /\ last'.err = "none"

\* the data types a selector chooses
Selects(data_type, k) ==
    \E i \in 1..Len(data_type) : data_type[i] = "all" \/ data_type[i] = k

\* the place of data type k under every subject, or under every pair of a
\* subject and a session, of the names a call made folders for
PlacesOf(k, top, sub_names, ses_names) ==
    IF DataTypeLevel(k) = "sub"
    THEN {<<top, sub_names[i], DataTypeName(k)>> : i \in 1..Len(sub_names)}
    ELSE {<<top, sub_names[i], ses_names[j], DataTypeName(k)>> :
            i \in 1..Len(sub_names), j \in 1..Len(ses_names)}

\* the session names a call made folders for
SessionsOf(call) == IF call.ses_names = None THEN <<>> ELSE call.ses_names[1]

\* the data-type folders a call is to make: those of the selected types that
\* are used, each at its level
Planned(call, top, usedflags) ==
    UNION {PlacesOf(k, top, call.sub_names, SessionsOf(call)) :
            k \in {x \in DataTypeKeys : usedflags[x] /\ Selects(call.args[3], x)}}

\* C14: a make_sub_folders call makes the folder of a data type only if the
\* used flag of that data type is true when the call is made
C14_OnlyUsedTypesMade ==
    [][ MakeStep =>
            \A p \in DataTypeFolders(local') \ local : used[DataTypeOf(p)] ]_vars

C14_Witness ==
    /\ MadeCall
    /\ last.err = "none"
    /\ last.args[3] = <<"behav", "histology">>
    /\ ~used["behav"]
    /\ \E p \in DataTypeFolders(local) : DataTypeOf(p) = "histology"
    /\ \A p \in DataTypeFolders(local) : DataTypeOf(p) # "behav"

\* a make_sub_folders(subs, sessions) call that made the full tree
FullTreeMade == MadeCall /\ last.err = "none" /\ last.args[2] # None /\ last.args[3] = <<"all">>

\* the folders of the data types still turned on are there, each at its level
OnTypesThere ==
    \A k \in DataTypeKeys :
        used[k] => PlacesOf(k, top_level_folder, last.sub_names, SessionsOf(last)) \subseteq local

\* C15 as stated: after a full tree is made no folder of a data type that is
\* turned off exists under the subjects and sessions of the call, and the
\* folders of the data types still turned on exist at their level
C15_OffTypeAbsent ==
    FullTreeMade =>
        /\ \A k \in DataTypeKeys :
              ~used[k] =>
                  PlacesOf(k, top_level_folder, last.sub_names, SessionsOf(last)) \cap local = {}
        /\ OnTypesThere

\* C15: making a full tree makes no folder of a data type that is turned off,
\* so that none is there unless it was there before the call, and the folders
\* of the data types still turned on exist at their level after it
C15_OffTypeNotMade ==
    [][ (MadeStep /\ last'.args[2] # None /\ last'.args[3] = <<"all">>) =>
            /\ \A k \in DataTypeKeys :
                  ~used[k] =>
                      PlacesOf(k, top_level_folder, last'.sub_names, SessionsOf(last')) \cap local'
                          \subseteq local
            /\ \A k \in DataTypeKeys :
                  used[k] =>
                      PlacesOf(k, top_level_folder, last'.sub_names, SessionsOf(last'))
                          \subseteq local' ]_vars

C15_Witness ==
    /\ FullTreeMade
    /\ Len(last.sub_names) = 2
    /\ ~used["funcimg"]
    /\ <<top_level_folder, Sub002, Ses002, DataTypeName("ephys")>> \in local
    /\ \A p \in DataTypeFolders(local) : DataTypeOf(p) # "funcimg"

\* C16: the data-type folders there after a call are those there before and
\* those of the selected and used data types, one under every subject for a
\* subject-level type and one under every subject's every session for a
\* session-level type; one subject with two sessions and every type used and
\* selected gives seven of them in a project that had none
C16_ExactlyThePlanned ==
    [][ MadeStep =>
            /\ DataTypeFolders(local')
                  = DataTypeFolders(local) \cup Planned(last', top_level_folder, used)
            /\ \A p \in DataTypeFolders(local') \ local :
                  Len(p) = (IF DataTypeLevel(DataTypeOf(p)) = "sub" THEN 3 ELSE 4)
            /\ ( /\ DataTypeFolders(local) = {}
                 /\ Len(last'.sub_names) = 1
                 /\ Len(SessionsOf(last')) = 2
                 /\ last'.args[3] = <<"all">>
                 /\ \A k \in DataTypeKeys : used[k] )
                  => Cardinality(DataTypeFolders(local')) = 7 ]_vars

C16_Witness ==
    /\ MadeCall
    /\ last.args = << <<Sub001>>, Some(<<Ses001, Ses002>>), <<"all">> >>
    /\ Cardinality(DataTypeFolders(local)) = 7
    /\ <<top_level_folder, Sub001, DataTypeName("histology")>> \in local
    /\ <<top_level_folder, Sub001, Ses002, DataTypeName("funcimg")>> \in local

\* C17: every data-type folder a call was to make is there after the call with
\* .datashuttle_meta inside it, also when the data-type folder was there before
\* the call, and the call makes no .datashuttle_meta anywhere else
C17_MetadataWithDataType ==
    [][ MadeStep =>
            /\ \A p \in Planned(last', top_level_folder, used) :
                  p \in local' /\ Append(p, MetaFolder) \in local'
            /\ \A p \in local' \ local :
                  p[Len(p)] = MetaFolder
                      => SubSeq(p, 1, Len(p) - 1) \in Planned(last', top_level_folder, used) ]_vars

C17_Witness ==
    /\ MadeCall
    /\ HandMade \in local
    /\ <<Rawdata, Sub001, DataTypeName("histology"), MetaFolder>> \in local
    /\ <<Rawdata, Sub001, Ses001, DataTypeName("behav"), MetaFolder>> \in local
    /\ <<Rawdata, Sub001, MetaFolder>> \notin local
    /\ <<Rawdata, Sub001, Ses001, MetaFolder>> \notin local

\* C18: a call whose data_type holds a key that is no data type makes no folder
C18_UnknownKeyMakesNothing ==
    [][ ( /\ MakeStep
          /\ \E i \in 1..Len(last'.args[3]) :
                last'.args[3][i] \notin DataTypeKeys \cup {"all", ""} )
            => (last'.err # "none" /\ local' = local) ]_vars

C18_Witness ==
    /\ MadeCall
    /\ last.args[3] = <<"ephys", "ephy">>
    /\ last.args[2] = Some(<<Ses001, Ses002>>)
    /\ last.err = "invalid_data_type"
    /\ \A p \in DataTypeFolders(local) : DataTypeOf(p) # "ephys"

\* C19: a call makes folders only under the working top-level folder, and the
\* subjects and sessions of the call are there after it
C19_OnlyUnderWorkingTopLevel ==
    [][ MakeStep =>
            /\ \A p \in local' \ local : p[1] = top_level_folder
            /\ last'.err = "none" =>
                  \A i \in 1..Len(last'.sub_names) :
                     /\ <<top_level_folder, last'.sub_names[i]>> \in local'
                     /\ \A j \in 1..Len(SessionsOf(last')) :
                           <<top_level_folder, last'.sub_names[i], SessionsOf(last')[j]>>
                               \in local' ]_vars

C19_Witness ==
    /\ MadeCall
    /\ top_level_folder = Derivatives
    /\ <<Derivatives, Sub001, Ses002>> \in local
    /\ \A p \in local : p[1] # Rawdata

----------------------------------------------------------------------------
(* The next subject and session number *)

\* the call asked for the next subject or session number
AskedNext == last.op \in {"get_next_sub_number", "get_next_ses_number"}

AskedKind == IF last.op = "get_next_sub_number" THEN Sub ELSE Ses

\* the folder whose subjects or sessions the call looked at
AskedFolder ==
    IF last.op = "get_next_sub_number" THEN <<top_level_folder>>
    ELSE <<top_level_folder, last.args[1]>>

\* the subject or session names there, locally or on central
NamesThere ==
    {n \in Children(local, AskedFolder) \cup Children(central, AskedFolder) :
        MatchesAt(n, AskedKind \o <<"-">>, 1)}

\* what the call returns: one more than the largest key, and the largest key
NextNumberIsMaxPlusOne ==
    AskedNext =>
        /\ NamesThere = {} => (last.err = "no_folders" /\ last.nums = <<>>)
        /\ (NamesThere # {} /\ \A n \in NamesThere : HasKey(n, AskedKind)) =>
              /\ last.err = "none"
              /\ last.nums = <<MaxOf({KeyOf(n, AskedKind) : n \in NamesThere}) + 1,
                               MaxOf({KeyOf(n, AskedKind) : n \in NamesThere})>>

\* the calls answer after the step as they did before it
SameAnswers ==
    /\ get_next_sub_number(local', central', top_level_folder')
          = get_next_sub_number(local, central, top_level_folder)
    /\ \A sub \in SubArgs :
          get_next_ses_number(local', central', top_level_folder', sub)
              = get_next_ses_number(local, central, top_level_folder, sub)

----------------------------------------------------------------------------
(* The numbers shown to the user *)

\* the call printed the next subject or session number
ShownNext == last.op \in {"show_next_sub_number", "show_next_ses_number"} /\ last.err = "none"

ShownKind == IF last.op = "show_next_sub_number" THEN Sub ELSE Ses

\* the folder whose subjects or sessions the call looked at
ShownFolder ==
    IF last.op = "show_next_sub_number" THEN <<top_level_folder>>
    ELSE <<top_level_folder, last.args[1]>>

\* the largest subject or session number there, locally or on central
LargestShown ==
    MaxOf({KeyOf(n, ShownKind) :
             n \in {m \in Children(local, ShownFolder) \cup Children(central, ShownFolder) :
                      MatchesAt(m, ShownKind \o <<"-">>, 1)}})

\* C27: show_next_ses_number(sub) prints the largest existing session number
\* of sub as the most recent one and one more as the suggested one, as
\* show_next_sub_number does for the subject numbers
C27_ShownMostRecentIsLargest ==
    ShownNext =>
        /\ last.most_recent = LargestShown
        /\ last.suggested = LargestShown + 1

----------------------------------------------------------------------------
(* The suggested number is free *)

\* the call returned the next subject or session number
ReturnedNext == AskedNext /\ last.err = "none"

\* the widths the new number is written with
Widths == 1..3

\* <kind>-<n>, n padded with zeros to width
NextName(kind, n, width) == kind \o <<"-">> \o zfill(str(n), width)

\* make_sub_folders for the suggested number, called next
MakeOfNext(width) ==
    LET now == CHOOSE t \in Nows : TRUE
    IN IF last.op = "get_next_sub_number"
       THEN make_sub_folders(local, top_level_folder, used,
                             <<NextName(Sub, last.nums[1], width)>>, None,
                             <<"">>, now, now)
       ELSE make_sub_folders(local, top_level_folder, used, <<last.args[1]>>,
                             Some(<<NextName(Ses, last.nums[1], width)>>),
                             <<"">>, now, now)

----------------------------------------------------------------------------
(* The roots of an accepted configuration *)

\* the path is absolute and does not start with the home shorthand
AbsoluteRoot(path) == path # None /\ as_posix(path[1])[1] = "/"

\* C23: a configuration passes check_dict_values_and_inform_user only if its
\* local root and its central root are absolute paths without the home
\* shorthand: a root that begins with ~ and a relative root are rejected
C23_AcceptedRootsAbsolute ==
    (last.op = "check_dict_values_and_inform_user" /\ last.err = "none") =>
        /\ AbsoluteRoot(last.args[1].local_path)
        /\ AbsoluteRoot(last.args[1].remote_path)

----------------------------------------------------------------------------
(* The search by glob and the search over SFTP *)

\* C25: for the same contents of the machine, the same search path and the
\* same pattern, search_for_folders returns the folder names and the file
\* names that the search through the local glob returns, whichever way it
\* searched, and no names, without an error, below a path that is not there
C25_SameByGlobAndSftp ==
    LET machine == last.args[1]
        search_path == last.args[3]
        search_prefix == last.args[5]
        ByGlob(paths) ==
            IF ~IsDir(machine.dirs, search_path) THEN {}
            ELSE search_filesystem_path_for_folders(paths, search_path, search_prefix)
    IN (last.op = "search_for_folders" /\ last.err = "none") =>
          /\ last.folders = ByGlob(machine.dirs)
          /\ last.files = ByGlob(machine.files)
          /\ ~IsDir(machine.dirs, search_path) => (last.folders = {} /\ last.files = {})

----------------------------------------------------------------------------
(* Names with the wildcard tag *)

\* C26: search_for_wildcards returns a list without duplicates that holds every
\* name given without the @*@ tag and, for every name given with the tag, the
\* folder names the search returns for the name with every tag replaced by *,
\* below the subject when one is passed and below the base folder otherwise,
\* and holds nothing else
C26_WildcardsReplacedBySearch ==
    LET machine == last.args[1]
        cfg == last.args[2]
        base_folder == last.args[3]
        local_or_central == last.args[4]
        all_names == last.args[5]
        sub == last.args[6]
        Tagged == {i \in 1..Len(all_names) : Contains(all_names[i], TagWildcard)}
        Found(name) ==
            search_for_folders(machine, cfg,
                               IF sub = <<>> THEN base_folder ELSE base_folder \o <<sub>>,
                               local_or_central,
                               Replace(name, TagWildcard, <<"*">>)).folders
    IN (last.op = "search_for_wildcards" /\ last.err = "none") =>
          /\ ~HasDuplicates(last.names)
          /\ Range(last.names)
                = {all_names[i] : i \in (1..Len(all_names)) \ Tagged}
                    \cup UNION {Found(all_names[i]) : i \in Tagged}

C26_Witness ==
    /\ last.op = "search_for_wildcards"
    /\ last.err = "none"
    /\ last.args[5] = <<<<"s", "u", "b", "-", "0", "0", "@", "*", "@">>,
                        <<"s", "u", "b", "-", "@", "*", "@", "2">>>>
    /\ Range(last.names) = {Sub001, Sub002}

----------------------------------------------------------------------------
(* Making the same folders again *)

\* the paths the call passes to make_folders, in the project as it is now
PathsOfCall(call) ==
    folder_paths(get_base_folder(top_level_folder), used,
                 call.args[1], call.args[2], call.args[3])

\* make_folder_trees for the folders of the call just made
MadeAgain ==
    make_folder_trees(local, get_base_folder(top_level_folder), used,
                      last.args[1], last.args[2], last.args[3])

\* C29: make_folder_trees run a second time for the same subjects, sessions
\* and data types raises no error, leaves the folders as the first run left
\* them and logs no folder as made; a run makes the folders of its paths that
\* are missing, and logs as made only folders that were not there before
C29_MakingAgainChangesNothing ==
    /\ [] ((last.op = "make_folder_trees" /\ last.err = "none") =>
              /\ MadeAgain.err = "none"
              /\ MadeAgain.fs = local
              /\ make_folders_log(local, PathsOfCall(last), <<>>) = [fs |-> local, log |-> <<>>])
    /\ [][ (last.op = "init" /\ last'.op = "make_folder_trees" /\ last'.err = "none") =>
              /\ local' = make_folders_log(local, PathsOfCall(last'), <<>>).fs
              /\ local \subseteq local'
              /\ Range(last'.log) = Range(PathsOfCall(last')) \ local ]_vars

C29_Witness ==
    /\ last.op = "make_folder_trees"
    /\ last.err = "none"
    /\ last.log = <<>>
    /\ last.args[3] = <<"all">>
    /\ Len(last.args[2]) = 2
    /\ \A k \in DataTypeKeys : used[k]

----------------------------------------------------------------------------
(* Transfers of the entire project *)

\* the step is a call of upload_entire_project or download_entire_project
EntireProjectStep ==
    last.op = "init" /\ last'.op \in {"upload_entire_project", "download_entire_project"}

\* the call was one of upload_entire_project or download_entire_project
EntireProjectCall == last.op \in {"upload_entire_project", "download_entire_project"}

\* C21: when upload_entire_project or download_entire_project ends, by
\* returning or by raising, the working top-level folder is the one it was
\* before the call
C21_TopLevelFolderRestored ==
    [][ EntireProjectStep => top_level_folder' = top_level_folder ]_vars

\* C22: one call of upload_entire_project or download_entire_project calls the
\* transfer of all data once for every canonical top-level folder, in turn,
\* with that folder as the working one, also when one of the transfers fails
C22_EveryTopLevelFolderOnce ==
    EntireProjectCall =>
        /\ Len(last.invoked) = Len(get_top_level_folders)
        /\ \A i \in 1..Len(last.invoked) :
              /\ last.invoked[i].folder = get_top_level_folders[i]
              /\ last.invoked[i].top_level_folder = get_top_level_folders[i]

\* C28: the working top-level folder is always a canonical one; a call of
\* set_top_level_folder with another name raises and leaves it and the saved
\* setting as they were, and with a canonical name sets both to that name
C28_TopLevelFolderCanonical ==
    /\ [](top_level_folder \in TopLevelFolders /\ settings.top_level_folder \in TopLevelFolders)
    /\ [][ (last.op = "init" /\ last'.op = "set_top_level_folder") =>
              IF last'.args[1] \in TopLevelFolders
              THEN /\ last'.err = "none"
                   /\ top_level_folder' = last'.args[1]
                   /\ settings'.top_level_folder = last'.args[1]
              ELSE /\ last'.err # "none"
                   /\ top_level_folder' = top_level_folder
                   /\ settings' = settings ]_vars

C28_Witness ==
    /\ last.op = "set_top_level_folder"
    /\ last.err # "none"
    /\ top_level_folder = Rawdata
    /\ settings.top_level_folder = Derivatives

----------------------------------------------------------------------------
(* Names whose first value is no integer *)

\* a formatted name of the call whose sub- or ses- value is not an integer
ValueNotInteger(call) ==
    \/ \E i \in 1..Len(call.sub_names) : ~HasKey(call.sub_names[i], Sub)
    \/ \E j \in 1..Len(SessionsOf(call)) : ~HasKey(SessionsOf(call)[j], Ses)

\* C24: a make_sub_folders call in which a subject or session name has, with
\* its prefix, a first value that is not an integer raises the invalid
\* character error and makes no folder, with or without session names
C24_NonIntegerValueRefused ==
    [][ (MakeStep /\ ValueNotInteger(last')) =>
            (last'.err = "invalid_value" /\ local' = local) ]_vars

====
